---------------------------- MODULE Spec2Model ----------------------------
(***************************************************************************)
(* MTDevKit (src/src/index.ts): the create_flutter_project provisioning   *)
(* pipeline of the MCP server.                                             *)
(*                                                                         *)
(* The server is one Node.js process.  JavaScript between two awaits runs  *)
(* atomically; every await in the handler waits for exactly one child      *)
(* process (execFileAsync).  An action of this model is therefore one such *)
(* segment: a child of an invocation exits, the handler resumes with the   *)
(* exit status and runs up to the next spawn or up to its return.          *)
(*                                                                         *)
(* The environment is not controlled by the program: every child exits     *)
(* with success or failure, a lookup of an executable finds it or not, and *)
(* the template and the tools decide which files the project tree holds.   *)
(* Filesystem calls of the handler itself (existsSync, mkdirSync,          *)
(* writeFileSync, readFileSync) are taken to succeed.                      *)
(*                                                                         *)
(* The value a handler returns is handed to the protocol layer, which      *)
(* sends it; the instance is then gone.  Nothing another invocation does   *)
(* reads or writes the locals of a finished handler, so the model sends    *)
(* the result before it lets another invocation move.                      *)
(***************************************************************************)
EXTENDS Integers, Sequences, FiniteSets, TLC

\* ---------------------------------------------------------------- bounds
\* Handler instances that may be in flight at the same time.
Runs == {1, 2}
\* Invocations of create_flutter_project accepted over the server's life.
MaxInvocations == 2

\* ------------------------------------------------------------- constants
TOTAL_STEPS == 11
DEFAULT_TEMPLATE == "https://bitbucket.org/mtinnovation/flutter_clean_template_2025"

\* The request of the model: the README's example, default template and dir.
Name == "logistics_app"
Org == "mu.mt"
ParentDir == "parentDir"
ProjectDir == "parentDir/logistics_app"

\* Paths under the project directory that the handler tests or writes.
GitDir == "parentDir/logistics_app/.git"
HooksDir == "parentDir/logistics_app/.githooks"
FlavorizrPath == "parentDir/logistics_app/flavorizr.yaml"
ConfigDir == "parentDir/logistics_app/config"
GradlePath == "parentDir/logistics_app/android/app/build.gradle.kts"
ProguardPath == "parentDir/logistics_app/android/app/proguard-rules.pro"
ConfigEnvs == <<"dev", "prod", "uat">>
ConfigPath(env) ==
  CASE env = "dev" -> "parentDir/logistics_app/config/app_config_dev.json"
    [] env = "prod" -> "parentDir/logistics_app/config/app_config_prod.json"
    [] env = "uat" -> "parentDir/logistics_app/config/app_config_uat.json"

\* What the tree of the project may or may not hold, depending on the
\* template and on what the tools generate from it.  The handler looks at
\* .git and .githooks right after the clone; it looks at the descriptor
\* after the command of step 5 and at the build script after the command of
\* step 9, and nothing before that depends on them: the model settles their
\* presence when that command exits.
TemplateFiles == {GitDir, HooksDir}
Generated(at) ==
  CASE at = "step5" -> {FlavorizrPath}
    [] at = "step9" -> {GradlePath}
    [] OTHER -> {}

VARIABLES
  phase,        \* "starting" until main()'s probe has returned, then "serving"
  useFvm,       \* the process-wide runner flag (let useFvm)
  files,        \* the paths that exist on disk
  invocations,  \* number of invocations accepted so far
  pc,           \* per handler instance: the child it awaits, "idle" or "done"
  dryRun,       \* per instance: const dryRun
  hasGit,       \* per instance: const hasGit
  detected,     \* per instance: what its own detectFvm() returned
  log,          \* per instance: const log (the lines pushed)
  call,         \* per instance: the arguments of its pending runInteractive()
  events,       \* per instance: what it did to the outside, in order: children
                \* started and exited, mkdirSync / writeFileSync calls, the return
  prior,        \* per instance: at entry, an earlier real run had returned success
  succeeded,    \* a real run has returned success
  result,       \* per instance: the value the handler returned
  arg,          \* a helper function studied on its own: its arguments
  ret           \* ... and what it returned (<<>>: not called yet)

vars == <<phase, useFvm, files, invocations, pc, dryRun, hasGit, detected,
          log, call, events, prior, succeeded, result, arg, ret>>

\* ------------------------------------------------------ runner selection
fvmCmd(flag, cmd) == IF flag THEN "fvm" ELSE cmd

\* fvmArgs that puts the command name after the arguments.
fvmArgsAppending(flag, cmd, args) == IF flag THEN args \o <<cmd>> ELSE args

fvmArgs(flag, cmd, args) == IF flag THEN <<cmd>> \o args ELSE args

\* ------------------------------------------------------------ log lines
Line(msg) == [type |-> "line", n |-> 0, of |-> 0, msg |-> msg, cmd |-> <<>>]

\* `  [dry-run] ${command} ${args.join(" ")}`
DryRunLine(command, args) ==
  [type |-> "dry-run", n |-> 0, of |-> 0, msg |-> "[dry-run]",
   cmd |-> <<command>> \o args]

\* stepMsg with a stale total (the 7 steps of an earlier version).
stepMsgStaleTotal(n, msg) ==
  [type |-> "step", n |-> n, of |-> 7, msg |-> msg, cmd |-> <<>>]

stepMsg(n, msg) ==
  [type |-> "step", n |-> n, of |-> TOTAL_STEPS, msg |-> msg, cmd |-> <<>>]

Header(key, value) ==
  [type |-> "header", n |-> 0, of |-> 0, msg |-> key, cmd |-> <<value>>]

\* ---------------------------------------------------- processes, errors
\* A child process: the step that starts it (0: tool detection), executable,
\* arguments, working directory, extra environment, and for `expect -c` the
\* command line its script spawns.
Proc(step, command, args, cwd) ==
  [step |-> step, command |-> command, args |-> args, cwd |-> cwd,
   env |-> {}, script |-> <<>>]

Which(step, cmd) == Proc(step, "which", <<cmd>>, "")

NoError == [msg |-> "", command |-> "", args |-> <<>>]
Error(msg) == [msg |-> msg, command |-> "", args |-> <<>>]
\* run(): `Command failed: ${command} ${args.join(" ")}\n${msg}`
CommandFailed(p) == [msg |-> "Command failed", command |-> p.command, args |-> p.args]

\* The errors the handler throws itself (lines 307, 311, 313, 427, 528).
ToolchainMissing ==
  Error("Neither fvm nor flutter found on PATH. Install Flutter or fvm first.")
GitMissing == Error("git is not installed.")
DirectoryExists ==
  Error("Directory already exists. Remove it or choose a different name.")
FlavorizrNotFound == Error("flavorizr.yaml not found")
GradleNotFound == Error("android/app/build.gradle.kts not found")

NoResult == [isError |-> FALSE, err |-> NoError, text |-> <<>>]

\* The entries of `events`.
NoProc == Proc(0, "", <<>>, "")
\* How the command spawned by the script of a scripted session ended: the
\* script saw its output end (eof) and `wait` gave its exit status `value`,
\* or the script's timeout came first.
Endings ==
  {[how |-> "eof", value |-> 0], [how |-> "eof", value |-> 1],
   [how |-> "timeout", value |-> 0]}
NoEnding == [how |-> "", value |-> 0]
NoContent == <<>>

\* An exit records which of the paths its command generates were on disk when
\* the child exited, which is what the resumed handler finds of them, and for
\* a scripted session how its command ended.  A write records the content
\* written.
SpawnEvent(p) ==
  [kind |-> "spawn", proc |-> p, ok |-> TRUE, op |-> "", path |-> "", disk |-> {},
   ending |-> NoEnding, content |-> NoContent]
ExitEvent(p, ok, disk, ending) ==
  [kind |-> "exit", proc |-> p, ok |-> ok, op |-> "", path |-> "", disk |-> disk,
   ending |-> ending, content |-> NoContent]
FsEvent(op, path, data) ==
  [kind |-> "fs", proc |-> NoProc, ok |-> TRUE, op |-> op, path |-> path, disk |-> {},
   ending |-> NoEnding, content |-> data]
ReturnEvent(isError) ==
  [kind |-> "return", proc |-> NoProc, ok |-> ~isError, op |-> "", path |-> "",
   disk |-> {}, ending |-> NoEnding, content |-> NoContent]


\* ------------------------------------------------ texts and the helpers
\* A text is the sequence of its characters.
MaxText == 2
Chars == {"x", " "}
\* White space: a space, a line end, and in a build script a run of four or
\* of eight spaces (one item each).
Whitespace == {" ", "\n", "    ", "        "}
Texts == UNION {[1..n -> Chars] : n \in 0..MaxText}

\* String.prototype.trim
RECURSIVE trimStart(_)
trimStart(t) ==
  IF t # <<>> /\ Head(t) \in Whitespace THEN trimStart(Tail(t)) ELSE t

RECURSIVE trimEnd(_)
trimEnd(t) ==
  IF t # <<>> /\ t[Len(t)] \in Whitespace
  THEN trimEnd(SubSeq(t, 1, Len(t) - 1))
  ELSE t

trim(t) == trimEnd(trimStart(t))

\* Array.prototype.join
RECURSIVE join(_, _)
join(parts, sep) ==
  IF parts = <<>> THEN <<>>
  ELSE IF Len(parts) = 1 THEN parts[1]
  ELSE parts[1] \o sep \o join(Tail(parts), sep)

\* err.message of a rejected execFile.
GenericMessage == <<"Command failed with exit code">>

\* What execFileAsync settles with: the exit code of the child and what it
\* wrote to its two streams.
Children == [code : {0, 1}, stdout : Texts, stderr : Texts]

\* run() with the two streams looked at in the other order.
runPreferringStdout(command, args, child) ==
  IF child.code = 0
  THEN [threw |-> FALSE,
        value |-> trim(join(SelectSeq(<<child.stdout, child.stderr>>,
                                      LAMBDA t : t # <<>>), <<"\n">>)),
        error |-> NoError, diagnostic |-> <<>>]
  ELSE LET msg == IF child.stdout # <<>> THEN child.stdout
                  ELSE IF child.stderr # <<>> THEN child.stderr
                  ELSE GenericMessage
       IN [threw |-> TRUE, value |-> <<>>,
           error |-> CommandFailed(Proc(0, command, args, "")),
           diagnostic |-> msg]

\* run() (lines 52-69): what it returns or throws, given how the child ended.
run(command, args, child) ==
  IF child.code = 0
  THEN [threw |-> FALSE,
        value |-> trim(join(SelectSeq(<<child.stdout, child.stderr>>,
                                      LAMBDA t : t # <<>>), <<"\n">>)),
        error |-> NoError, diagnostic |-> <<>>]
  ELSE LET msg == IF child.stderr # <<>> THEN child.stderr
                  ELSE IF child.stdout # <<>> THEN child.stdout
                  ELSE GenericMessage
       IN [threw |-> TRUE, value |-> <<>>,
           error |-> CommandFailed(Proc(0, command, args, "")),
           diagnostic |-> msg]

MaxName == 4
NameChars == {"a", "b", "1", "_"}
LowerCase == <<"a", "b", "c", "d", "e", "f", "g", "h", "i", "j", "k", "l", "m",
               "n", "o", "p", "q", "r", "s", "t", "u", "v", "w", "x", "y", "z">>
UpperCase == <<"A", "B", "C", "D", "E", "F", "G", "H", "I", "J", "K", "L", "M",
               "N", "O", "P", "Q", "R", "S", "T", "U", "V", "W", "X", "Y", "Z">>
Digits == {"0", "1", "2", "3", "4", "5", "6", "7", "8", "9"}
Letters == {LowerCase[i] : i \in 1..Len(LowerCase)}

\* DART_PACKAGE_NAME_RE = /^[a-z][a-z0-9_]*$/
DART_PACKAGE_NAME_RE(t) ==
  /\ t # <<>>
  /\ t[1] \in Letters
  /\ \A i \in 1..Len(t) : t[i] \in Letters \cup Digits \cup {"_"}

TelecomApp == <<"t", "e", "l", "e", "c", "o", "m", "_", "a", "p", "p">>

\* The names the input schema lets through, up to MaxName characters of
\* NameChars, and the name of the documentation.
PackageNames ==
  {t \in UNION {[1..n -> NameChars] : n \in 1..MaxName} : DART_PACKAGE_NAME_RE(t)}
    \cup {TelecomApp}

\* String.prototype.toUpperCase, of one character
toUpperCase(ch) ==
  IF \E i \in 1..Len(LowerCase) : LowerCase[i] = ch
  THEN UpperCase[CHOOSE i \in 1..Len(LowerCase) : LowerCase[i] = ch]
  ELSE ch

\* String.prototype.split, with a separator of one character
RECURSIVE split(_, _)
split(t, sep) ==
  IF \A i \in 1..Len(t) : t[i] # sep THEN <<t>>
  ELSE LET k == CHOOSE i \in 1..Len(t) :
                  t[i] = sep /\ \A j \in 1..(i - 1) : t[j] # sep
       IN <<SubSeq(t, 1, k - 1)>> \o split(SubSeq(t, k + 1, Len(t)), sep)

\* w.charAt(0).toUpperCase() + w.slice(1)
capitalize(w) ==
  IF w = <<>> THEN <<>> ELSE <<toUpperCase(w[1])>> \o Tail(w)

toDisplayName(pkg) ==
  LET words == split(pkg, "_")
  IN join([i \in 1..Len(words) |-> capitalize(words[i])], <<" ">>)

\* toAppId() with a pattern that is not global: only the first underscore goes.
toAppIdFirstMatch(pkg) ==
  IF \A i \in 1..Len(pkg) : pkg[i] # "_" THEN pkg
  ELSE LET k == CHOOSE i \in 1..Len(pkg) :
                  pkg[i] = "_" /\ \A j \in 1..(i - 1) : pkg[j] # "_"
       IN SubSeq(pkg, 1, k - 1) \o SubSeq(pkg, k + 1, Len(pkg))

\* pkg.replace(/_/g, "")
toAppId(pkg) ==
  SelectSeq(pkg, LAMBDA ch : ch # "_")


\* The characters of the words the handler formats.
Characters(word) ==
  CASE word = "dev" -> <<"d", "e", "v">>
    [] word = "prod" -> <<"p", "r", "o", "d">>
    [] word = "uat" -> <<"u", "a", "t">>
    [] word = Name -> <<"l", "o", "g", "i", "s", "t", "i", "c", "s", "_", "a", "p", "p">>

\* String.prototype.toUpperCase, of a text
toUpperCaseAll(t) == [i \in 1..Len(t) |-> toUpperCase(t[i])]

\* JSON.stringify(value, null, 2) of an object whose values are strings: the
\* text, item by item (a key is one item, a value is its characters).
Quote == "\""
JSONstringify(fields) ==
  <<"{">>
    \o join([i \in 1..Len(fields) |->
               <<"\n", "  ", Quote, fields[i].key, Quote, ":", " ", Quote>>
                 \o fields[i].value \o <<Quote>>],
            <<",">>)
    \o <<"\n", "}">>

\* configJson() that keeps the case of the environment name.
configJsonKeepingCase(env) ==
  JSONstringify(<<[key |-> "secretKey", value |-> Characters(env)],
                  [key |-> "baseUrl", value |-> <<>>],
                  [key |-> "xAPIKey", value |-> <<>>],
                  [key |-> "oneSignalKey", value |-> <<>>]>>)

\* configJson() (lines 143-154)
configJson(env) ==
  JSONstringify(<<[key |-> "secretKey", value |-> toUpperCaseAll(Characters(env))],
                  [key |-> "baseUrl", value |-> <<>>],
                  [key |-> "xAPIKey", value |-> <<>>],
                  [key |-> "oneSignalKey", value |-> <<>>]>>)

\* flavorizrContent (lines 432-454): the three flavors are built from the
\* same three values, the name of the app, the organisation and the
\* identifier of the app.
flavorizrContent ==
  LET displayName == toDisplayName(Characters(Name))
      appId == toAppId(Characters(Name))
  IN <<"flavors:", "name:">> \o displayName \o <<"id:", Org, ".">> \o appId

\* proguardContent (lines 569-589), rule by rule.
proguardContent ==
  <<"-ignorewarnings", "-keepattributes", "-keep class com.huawei",
    "-keep class io.flutter", "-dontwarn io.flutter.embedding",
    "-keep class androidx.lifecycle", "-repackageclasses">>

\* A build script is the sequence of its items: words, braces, line ends
\* and runs of spaces.  The ones a project may come with:
CompileBlock ==
  <<"    ", "compileOptions", " ", "{", "\n", "        ", "sourceCompatibility",
    "\n", "    ", "}", "\n">>
BuildBlock ==
  <<"    ", "buildTypes", " ", "{", "\n", "        ", "release", " ", "{", "\n",
    "        ", "}", "\n", "    ", "}", "\n">>
Script(top, cb, bb, end) ==
  top \o <<"android", " ", "{", "\n">> \o cb \o bb \o <<"}">> \o end

\* with or without a block of plugins at the top;
ScriptTops == {<<>>, <<"plugins", " ", "{", "\n", "}", "\n">>}
\* without a block of compile options, with one, with one whose brace
\* follows the word directly;
CompileBlocks ==
  {<<>>, CompileBlock,
   <<"    ", "compileOptions", "{", "\n", "    ", "}", "\n">>}
\* without a block of build types, with one, with one that is closed on
\* the line it is opened on;
BuildBlocks ==
  {<<>>, BuildBlock, <<"    ", "buildTypes", " ", "{", "}", "\n">>}
\* with or without empty lines at the end.
ScriptEnds == {<<>>, <<"\n", "\n">>}
GradleScripts ==
  {Script(top, cb, bb, end) :
     top \in ScriptTops, cb \in CompileBlocks, bb \in BuildBlocks, end \in ScriptEnds}

\* The scripts that the command of step 9 leaves in a run of the whole
\* handler: one without either block and one with both.
TemplateScripts ==
  {Script(<<>>, <<>>, <<>>, <<>>), Script(<<>>, CompileBlock, BuildBlock, <<"\n">>)}

Least(S) == CHOOSE i \in S : \A j \in S : i <= j

\* The first match of /compileOptions\s*\{/ in g, as <<from, to>>; <<>> if
\* there is none.
MatchCompileOptions(g) ==
  LET Opens(i, j) == g[j] = "{" /\ \A k \in (i + 1)..(j - 1) : g[k] \in Whitespace
      starts == {i \in 1..Len(g) :
                   g[i] = "compileOptions" /\ \E j \in (i + 1)..Len(g) : Opens(i, j)}
  IN IF starts = {} THEN <<>>
     ELSE LET i == Least(starts)
          IN <<i, Least({j \in (i + 1)..Len(g) : Opens(i, j)})>>

\* The first match of /buildTypes\s*\{[\s\S]*?\n    \}/ in g.
MatchBuildTypes(g) ==
  LET Opens(i, j) == g[j] = "{" /\ \A k \in (i + 1)..(j - 1) : g[k] \in Whitespace
      Closes(k) == g[k] = "\n" /\ g[k + 1] = "    " /\ g[k + 2] = "}"
      Matches(i, j, k) == Opens(i, j) /\ Closes(k)
      starts == {i \in 1..Len(g) :
                   g[i] = "buildTypes"
                   /\ \E j \in (i + 1)..Len(g) : \E k \in (j + 1)..(Len(g) - 2) :
                        Matches(i, j, k)}
  IN IF starts = {} THEN <<>>
     ELSE LET i == Least(starts)
              j == Least({n \in (i + 1)..Len(g) : Opens(i, n)})
          IN <<i, Least({k \in (j + 1)..(Len(g) - 2) : Closes(k)}) + 2>>

\* String.prototype.replace with a pattern that is not global: the first
\* match, if there is one, is replaced.
replace(g, match, by) ==
  IF match = <<>> THEN g
  ELSE SubSeq(g, 1, match[1] - 1) \o by \o SubSeq(g, match[2] + 1, Len(g))

DesugaringOption == "isCoreLibraryDesugaringEnabled = true"
CompileOptionsOpening ==
  <<"compileOptions", " ", "{", "\n", "        ", DesugaringOption>>
DebugBuildTypes ==
  <<"buildTypes", " ", "{", "\n", "        ", "getByName(\"debug\")", "\n", "    ", "}">>
DependenciesBlock ==
  <<"\n", "\n", "dependencies", " ", "{", "\n",
    "    ", "implementation(\"com.huawei.hms:push:6.11.0.300\")", "\n",
    "    ", "implementation(\"androidx.multidex:multidex:2.0.1\")", "\n",
    "    ", "coreLibraryDesugaring(\"com.android.tools:desugar_jdk_libs:2.1.4\")", "\n",
    "}", "\n">>

\* A patch that gives up on a script in which one of the blocks is missing.
patchGradleWhenBothMatch(gradle) ==
  IF MatchCompileOptions(gradle) = <<>> \/ MatchBuildTypes(gradle) = <<>>
  THEN gradle
  ELSE LET a == replace(gradle, MatchCompileOptions(gradle), CompileOptionsOpening)
           b == replace(a, MatchBuildTypes(a), DebugBuildTypes)
       IN trimEnd(b) \o DependenciesBlock

\* The patch of step 11 (lines 533-561): 8a, 8b, 8c.
patchGradle(gradle) ==
  LET a == replace(gradle, MatchCompileOptions(gradle), CompileOptionsOpening)
      b == replace(a, MatchBuildTypes(a), DebugBuildTypes)
  IN trimEnd(b) \o DependenciesBlock

\* ------------------------------------------------- the handler's context
\* A context c is what one segment of the handler reads and writes: the
\* instance's locals, the flag as the segment reads it, and the disk.
Push(c, line) == [c EXCEPT !.log = Append(@, line)]

\* execFileAsync(...) followed by await: the child is started, the handler
\* yields and resumes at `at` when the child has exited.
Spawn(c, p, at) == [c EXCEPT !.events = Append(@, SpawnEvent(p)), !.pc = at]

\* A catch block that forgets `isError: true`.
ThrowWithoutIsError(c, err) ==
  [c EXCEPT !.pc = "done",
            !.events = Append(@, ReturnEvent(FALSE)),
            !.result = [isError |-> FALSE, err |-> err, text |-> c.log]]

\* A catch block that returns the message of the error without the log.
ThrowDiscardingLog(c, err) ==
  [c EXCEPT !.pc = "done",
            !.events = Append(@, ReturnEvent(TRUE)),
            !.result = [isError |-> TRUE, err |-> err, text |-> <<>>]]

\* The catch block of the handler (lines 608-618).
Throw(c, err) ==
  [c EXCEPT !.pc = "done",
            !.events = Append(@, ReturnEvent(TRUE)),
            !.result = [isError |-> TRUE, err |-> err, text |-> c.log]]

\* A try block that falls off its end without a return statement: the
\* handler ends with no result.
ReturnNothing(c) == [c EXCEPT !.pc = "ended"]

\* The return of the try block (lines 605-607).
Return(c) ==
  [c EXCEPT !.pc = "done",
            !.events = Append(@, ReturnEvent(FALSE)),
            !.result = [isError |-> FALSE, err |-> NoError, text |-> c.log]]

mkdirSync(c, path) ==
  [c EXCEPT !.files = @ \cup {path},
            !.events = Append(@, FsEvent("mkdirSync", path, NoContent))]

writeFileSync(c, path, data) ==
  [c EXCEPT !.files = @ \cup {path},
            !.events = Append(@, FsEvent("writeFileSync", path, data))]

\* readFileSync(gradlePath, "utf-8"), the one file the handler reads: the
\* content that the command of step 9 has left.
readFileSync(c, path) == c.gradle

existsSync(c, path) == path \in c.files

\* The child whose exit resumed the segment.
Awaited(c) == c.events[Len(c.events)].proc

\* A run() that resolves whatever the exit code.
AfterRunIgnoringExitCode(c, ok, next) == next

\* run(): resolves with the output on exit code 0, throws otherwise.
\* `next` is the handler's continuation after a successful run.
AfterRun(c, ok, next) == IF ok THEN next ELSE Throw(c, CommandFailed(Awaited(c)))

\* ------------------------------------------------------------- the steps
\* Each operator is the code from the named point up to the next await (or
\* to the return), as a function of the context.  They are listed last step
\* first because each one continues into the next.

\* -- Done -- (lines 594-607)
Done(c) ==
  IF c.dry
  THEN Return(Push(c, Line("Dry run complete! No changes were made.")))
  ELSE Return(Push(Push(Push(Push(Push(c,
         Line("Setup complete!")),
         Header("Project location", ProjectDir)),
         Line("Next steps:")),
         Line("1. Fill in config/app_config_*.json with your API keys")),
         Line("2. Open the project in your IDE and start building")))

\* Step 11 without the check that the build script exists.
Step11WithoutGuard(c) ==
  LET c1 == Push(c, stepMsg(11, "Configuring Android build (desugaring, HMS, ProGuard)"))
  IN IF c1.dry
     THEN Done(Push(Push(c1,
            Line("[dry-run] Patch android/app/build.gradle.kts")),
            Line("[dry-run] Create android/app/proguard-rules.pro")))
     ELSE Done(Push(writeFileSync(
                 Push(writeFileSync(c1, GradlePath,
                                    patchGradle(readFileSync(c1, GradlePath))),
                      Line("android/app/build.gradle.kts updated")),
                 ProguardPath, proguardContent),
               Line("android/app/proguard-rules.pro created")))

\* -- Step 11: Configure Android build -- (lines 520-592)
Step11(c) ==
  LET c1 == Push(c, stepMsg(11, "Configuring Android build (desugaring, HMS, ProGuard)"))
  IN IF c1.dry
     THEN Done(Push(Push(c1,
            Line("[dry-run] Patch android/app/build.gradle.kts")),
            Line("[dry-run] Create android/app/proguard-rules.pro")))
     ELSE IF ~existsSync(c1, GradlePath)
          THEN Throw(c1, GradleNotFound)
          ELSE LET gradle == patchGradle(readFileSync(c1, GradlePath))
                   c2 == Push(writeFileSync(c1, GradlePath, gradle),
                              Line("android/app/build.gradle.kts updated"))
                   c3 == Push(writeFileSync(c2, ProguardPath, proguardContent),
                              Line("android/app/proguard-rules.pro created"))
               IN Done(c3)

\* -- Step 10: Create config files -- (lines 502-518)
Step10(c) ==
  LET c1 == Push(c, stepMsg(10, "Creating config files"))
      c2 == IF c1.dry
            THEN Push(Push(c1, Line("[dry-run] mkdir -p config")),
                      Line("[dry-run] Write config/app_config_{dev,prod,uat}.json"))
            ELSE writeFileSync(writeFileSync(writeFileSync(
                   mkdirSync(c1, ConfigDir),
                   ConfigPath(ConfigEnvs[1]), configJson(ConfigEnvs[1]) \o <<"\n">>),
                   ConfigPath(ConfigEnvs[2]), configJson(ConfigEnvs[2]) \o <<"\n">>),
                   ConfigPath(ConfigEnvs[3]), configJson(ConfigEnvs[3]) \o <<"\n">>)
  IN Step11(Push(c2, Line("Config files created")))

\* -- Step 9: Revert main.dart & app.dart -- (lines 489-500)
AfterStep9(c, ok) ==
  AfterRun(c, ok, Step10(Push(c, Line("main.dart & app.dart reverted"))))

Step9(c) ==
  LET c1 == Push(c, stepMsg(9, "Reverting main.dart & app.dart (overwritten by flavorizr)"))
  IN IF c1.dry
     THEN Step10(Push(Push(c1,
            DryRunLine("git", <<"checkout", "--", "lib/main.dart", "lib/app.dart">>)),
            Line("main.dart & app.dart reverted")))
     ELSE Spawn(c1, Proc(9, "git", <<"checkout", "--", "lib/main.dart", "lib/app.dart">>,
                         ProjectDir), "step9")

\* -- Step 8: Generate flavors (needs PTY) -- (lines 473-487)
AfterStep8(c, ok) ==
  AfterRun([c EXCEPT !.call = <<>>], ok,
           Step9(Push([c EXCEPT !.call = <<>>], Line("Flavors generated"))))

\* The script of a session without its `timeout { exit 1 }` clause: when the
\* time is up the script goes on to `wait` and exits with the status it
\* gives.
expectScriptWithoutTimeoutClause(ending) == ending.value

\* The exit code of `expect -c expectScript` (lines 95-105):
\*   expect { ... timeout { exit 1 }  eof }
\*   lassign [wait] pid spawnid os_error_flag value
\*   exit $value
expectScript(ending) == IF ending.how = "timeout" THEN 1 ELSE ending.value

\* runInteractive() whose fallback passes no extra environment.
runInteractiveWithoutHints(c, hasExpect) ==
  LET command == c.call[1]
      args == SubSeq(c.call, 2, Len(c.call))
  IN IF hasExpect
     THEN Spawn(c, [Proc(8, "expect", <<"-c", "expectScript">>, ProjectDir)
                      EXCEPT !.script = c.call], "step8")
     ELSE Spawn(c, Proc(8, command, args, ProjectDir), "step8")

\* runInteractive() after `await commandExists("expect")` (lines 94-111).
runInteractive(c, hasExpect) ==
  LET command == c.call[1]
      args == SubSeq(c.call, 2, Len(c.call))
  IN IF hasExpect
     THEN Spawn(c, [Proc(8, "expect", <<"-c", "expectScript">>, ProjectDir)
                      EXCEPT !.script = c.call], "step8")
     ELSE Spawn(c, [Proc(8, command, args, ProjectDir)
                      EXCEPT !.env = {"CI=true", "TERM=dumb"}], "step8")

Step8(c) ==
  LET c1 == Push(c, stepMsg(8, "Generating flavors (flavorizr)"))
      command == fvmCmd(c.flag, "flutter")
      args == fvmArgs(c.flag, "flutter", <<"pub", "run", "flutter_flavorizr">>)
  IN IF c1.dry
     THEN Step9(Push(Push(Push(c1,
            DryRunLine(command, args)),
            Line("[dry-run] (will use expect for PTY allocation)")),
            Line("Flavors generated")))
     ELSE Spawn([c1 EXCEPT !.call = <<command>> \o args],
                Which(8, "expect"), "step8_expect")

\* -- Step 7: Commit all files before flavorizr -- (lines 459-471)
\* Step 7 going on to step 8 whatever the exit code of `git commit`.
AfterStep7CommitIgnoringFailure(c, ok) ==
  Step8(Push(c, Line("All files committed")))

AfterStep7Commit(c, ok) ==
  AfterRun(c, ok, Step8(Push(c, Line("All files committed"))))

AfterStep7Add(c, ok) ==
  AfterRun(c, ok,
           Spawn(c, Proc(7, "git", <<"commit", "-m", "Initial project setup before flavorizr">>,
                         ProjectDir), "step7_commit"))

\* Step 7 with `git add` and `git commit` started together (the add is not
\* awaited before the commit is started).
Step7NotAwaitingAdd(c) ==
  LET c1 == Push(c, stepMsg(7, "Committing all files before flavorizr"))
  IN IF c1.dry
     THEN Step8(Push(Push(c1, Line("[dry-run] git add -A && git commit")),
                     Line("All files committed")))
     ELSE Spawn(Spawn(c1, Proc(7, "git", <<"add", "-A">>, ProjectDir), "step7_add"),
                Proc(7, "git", <<"commit", "-m", "Initial project setup before flavorizr">>,
                     ProjectDir), "step7_commit")

Step7(c) ==
  LET c1 == Push(c, stepMsg(7, "Committing all files before flavorizr"))
  IN IF c1.dry
     THEN Step8(Push(Push(c1, Line("[dry-run] git add -A && git commit")),
                     Line("All files committed")))
     ELSE Spawn(c1, Proc(7, "git", <<"add", "-A">>, ProjectDir), "step7_add")

\* Step 6 without the check that the descriptor exists.
Step6WithoutGuard(c) ==
  LET c1 == Push(c, stepMsg(6, "Updating flavorizr.yaml"))
  IN IF c1.dry
     THEN Step7(Push(Push(c1,
            Line("[dry-run] Update flavorizr.yaml with project name & org")),
            Line("flavorizr.yaml updated")))
     ELSE Step7(Push(writeFileSync(c1, FlavorizrPath, flavorizrContent),
                     Line("flavorizr.yaml updated")))

\* -- Step 6: Update flavorizr.yaml -- (lines 420-457)
Step6(c) ==
  LET c1 == Push(c, stepMsg(6, "Updating flavorizr.yaml"))
  IN IF c1.dry
     THEN Step7(Push(Push(c1,
            Line("[dry-run] Update flavorizr.yaml with project name & org")),
            Line("flavorizr.yaml updated")))
     ELSE IF ~existsSync(c1, FlavorizrPath)
          THEN Throw(c1, FlavorizrNotFound)
          ELSE Step7(Push(writeFileSync(c1, FlavorizrPath, flavorizrContent),
                          Line("flavorizr.yaml updated")))

\* -- Step 5: Generate localisations -- (lines 405-418)
AfterStep5(c, ok) ==
  AfterRun(c, ok, Step6(Push(c, Line("Localisations generated"))))

Step5(c) ==
  LET c1 == Push(c, stepMsg(5, "Generating localisations"))
      command == fvmCmd(c.flag, "flutter")
      args == fvmArgs(c.flag, "flutter", <<"gen-l10n">>)
  IN IF c1.dry
     THEN Step6(Push(Push(c1, DryRunLine(command, args)),
                     Line("Localisations generated")))
     ELSE Spawn(c1, Proc(5, command, args, ProjectDir), "step5")

\* -- Step 4: Install dependencies -- (lines 390-403)
\* Step 4 with its completion line pushed before the command is awaited.
AfterStep4PushedEarly(c, ok) ==
  AfterRun(Push(c, Line("Dependencies installed")), ok,
           Step5(Push(c, Line("Dependencies installed"))))

\* Step 4 whose dry run logs the command without resolving it through the
\* runner.
Step4LoggingUnresolved(c) ==
  LET c1 == Push(c, stepMsg(4, "Installing Flutter dependencies"))
      command == fvmCmd(c.flag, "flutter")
      args == fvmArgs(c.flag, "flutter", <<"pub", "get">>)
  IN IF c1.dry
     THEN Step5(Push(Push(c1, DryRunLine("flutter", <<"pub", "get">>)),
                     Line("Dependencies installed")))
     ELSE Spawn(c1, Proc(4, command, args, ProjectDir), "step4")

AfterStep4(c, ok) ==
  AfterRun(c, ok, Step5(Push(c, Line("Dependencies installed"))))

Step4(c) ==
  LET c1 == Push(c, stepMsg(4, "Installing Flutter dependencies"))
      command == fvmCmd(c.flag, "flutter")
      args == fvmArgs(c.flag, "flutter", <<"pub", "get">>)
  IN IF c1.dry
     THEN Step5(Push(Push(c1, DryRunLine(command, args)),
                     Line("Dependencies installed")))
     ELSE Spawn(c1, Proc(4, command, args, ProjectDir), "step4")

\* -- Step 3: Git init -- (lines 363-388)
AfterStep3Hooks(c, ok) ==
  AfterRun(c, ok, Step4(Push(c, Line("Git hooks configured (.githooks/)"))))

\* The second half of step 3 (lines 378-387).
Step3Hooks(c) ==
  IF existsSync(c, HooksDir)
  THEN Spawn(c, Proc(3, "git", <<"config", "core.hooksPath", ".githooks/">>, ProjectDir),
             "step3_hooks")
  ELSE Step4(Push(c, Line("No .githooks/ directory found - skipping hook setup")))

AfterStep3Init(c, ok) ==
  AfterRun(c, ok, Step3Hooks(Push(c, Line("Git repository initialised"))))

\* Step 3 running `git init` whether or not the repository exists.
Step3AlwaysInit(c) ==
  LET c1 == Push(c, stepMsg(3, "Initialising Git repository"))
  IN IF c1.dry
     THEN Step4(Push(Push(c1,
            Line("[dry-run] git init (if .git/ does not exist)")),
            Line("[dry-run] git config core.hooksPath .githooks/ (if .githooks/ exists)")))
     ELSE Spawn(c1, Proc(3, "git", <<"init">>, ProjectDir), "step3_init")

Step3(c) ==
  LET c1 == Push(c, stepMsg(3, "Initialising Git repository"))
  IN IF c1.dry
     THEN Step4(Push(Push(c1,
            Line("[dry-run] git init (if .git/ does not exist)")),
            Line("[dry-run] git config core.hooksPath .githooks/ (if .githooks/ exists)")))
     ELSE IF ~existsSync(c1, GitDir)
          THEN Spawn(c1, Proc(3, "git", <<"init">>, ProjectDir), "step3_init")
          ELSE Step3Hooks(Push(c1, Line("Git repository already exists")))

\* -- Step 2: Clone template -- (lines 341-361)
AfterStep2(c, ok) ==
  AfterRun(c, ok, Step3(Push(c, Line("Template cloned"))))

\* Step 2 without the option that tells the template tool about the runner.
Step2WithoutFvmOption(c) ==
  LET c1 == Push(c, stepMsg(2, "Cloning template into logistics_app"))
      starterArgs ==
        fvmArgs(c.flag, "dart",
                <<"pub", "global", "run", "app_starter_plus:app_starter_plus",
                  "--name", Name, "--org", Org, "--template", DEFAULT_TEMPLATE>>)
  IN IF c1.dry
     THEN Step3(Push(Push(c1, DryRunLine(fvmCmd(c.flag, "dart"), starterArgs)),
                     Line("Template cloned")))
     ELSE Spawn(c1, Proc(2, fvmCmd(c.flag, "dart"), starterArgs, ParentDir), "step2")

\* -- Step 2: Clone template -- (lines 341-361)
Step2(c) ==
  LET c1 == Push(c, stepMsg(2, "Cloning template into logistics_app"))
      starterArgs ==
        fvmArgs(c.flag, "dart",
                <<"pub", "global", "run", "app_starter_plus:app_starter_plus",
                  "--name", Name, "--org", Org, "--template", DEFAULT_TEMPLATE>>
                \o (IF c.flag THEN <<"--fvm">> ELSE <<>>))
  IN IF c1.dry
     THEN Step3(Push(Push(c1, DryRunLine(fvmCmd(c.flag, "dart"), starterArgs)),
                     Line("Template cloned")))
     ELSE Spawn(c1, Proc(2, fvmCmd(c.flag, "dart"), starterArgs, ParentDir), "step2")

\* -- Step 1: Install app_starter_plus -- (lines 322-339)
AfterStep1(c, ok) ==
  AfterRun(c, ok, Step2(Push(c, Line("app_starter_plus ready"))))

Step1(c) ==
  LET c1 == Push(c, stepMsg(1, "Installing app_starter_plus"))
      command == fvmCmd(c.flag, "dart")
      args == fvmArgs(c.flag, "dart", <<"pub", "global", "activate", "app_starter_plus">>)
  IN IF c1.dry
     THEN Step2(Push(Push(c1, DryRunLine(command, args)),
                     Line("app_starter_plus ready")))
     ELSE Spawn(c1, Proc(1, command, args, ""), "step1")

\* A pre-flight that does not look at the project directory.
PreFlightRestWithoutDirCheck(c) ==
  IF ~c.hasGit THEN Throw(c, GitMissing) ELSE Step1(c)

\* -- Pre-flight checks -- (lines 304-320)
\* The rest of the pre-flight once the toolchain check has passed.
PreFlightRest(c) ==
  IF ~c.hasGit THEN Throw(c, GitMissing)
  ELSE IF existsSync(c, ProjectDir) THEN Throw(c, DirectoryExists)
       ELSE Step1(c)

\* A pre-flight that goes on to step 1 as soon as flutter is found.
AfterWhichFlutterSkippingRest(c, found) ==
  IF ~found THEN Throw(c, ToolchainMissing) ELSE Step1(c)

\* `!(await commandExists("flutter"))` has returned.
AfterWhichFlutter(c, found) ==
  IF ~found THEN Throw(c, ToolchainMissing) ELSE PreFlightRest(c)

\* A pre-flight whose git and directory checks sit inside the `!useFvm`
\* branch.
PreFlightChecksOnlyWithoutFvm(c) ==
  IF ~c.dry
  THEN IF ~c.flag
       THEN Spawn(c, Which(0, "flutter"), "which_flutter")
       ELSE Step1(c)
  ELSE Step1(Push(c, Line("[pre-flight] Would verify: flutter/fvm, git installed; project dir does not exist")))

\* A pre-flight without the dry-run branch: a dry run is checked like a real
\* run.
PreFlightAlsoInDryRun(c) ==
  IF ~c.flag
  THEN Spawn(c, Which(0, "flutter"), "which_flutter")
  ELSE PreFlightRest(c)

\* A pre-flight that tests for git before it looks for flutter.
PreFlightGitFirst(c) ==
  IF ~c.dry
  THEN IF ~c.hasGit THEN Throw(c, GitMissing)
       ELSE IF ~c.flag
            THEN Spawn(c, Which(0, "flutter"), "which_flutter")
            ELSE PreFlightRest(c)
  ELSE Step1(Push(c, Line("[pre-flight] Would verify: flutter/fvm, git installed; project dir does not exist")))

\* A pre-flight that looks for flutter in a dry run as well.
PreFlightProbingInDryRun(c) ==
  IF ~c.flag
  THEN Spawn(c, Which(0, "flutter"), "which_flutter")
  ELSE IF c.dry THEN Step1(c) ELSE PreFlightRest(c)

PreFlight(c) ==
  IF ~c.dry
  THEN IF ~c.flag
       THEN Spawn(c, Which(0, "flutter"), "which_flutter")
       ELSE PreFlightRest(c)
  ELSE Step1(Push(c, Line("[pre-flight] Would verify: flutter/fvm, git installed; project dir does not exist")))

\* -- Detect tooling -- (lines 292-302)
\* `const hasGit = await commandExists("git")` has returned.
AfterWhichGit(c, found) ==
  LET c0 == [c EXCEPT !.hasGit = found]
      runner == IF c0.flag THEN "fvm" ELSE "flutter/dart (fvm not found)"
      c1 == Push(Push(Push(Push(Push(c0,
              Header("Project", Name)),
              Header("Org", Org)),
              Header("Template", DEFAULT_TEMPLATE)),
              Header("Location", ProjectDir)),
              Header("Runner", runner))
      c2 == IF c1.dry THEN Push(c1, Line("Mode:     DRY RUN")) ELSE c1
  IN PreFlight(c2)

\* `useFvm = await detectFvm()` has returned: the flag is assigned, then
\* commandExists("git") is started.
AfterDetectFvm(c, found) ==
  Spawn([c EXCEPT !.flag = found, !.detected = found], Which(0, "git"), "which_git")

\* The handler is entered (lines 282-293): locals are initialised and
\* detectFvm() is started.
Enter(c, dry_run) ==
  Spawn([c EXCEPT !.dry = dry_run, !.hasGit = FALSE, !.detected = FALSE,
                  !.log = <<>>, !.call = <<>>, !.events = <<>>,
                  !.result = NoResult],
        Which(0, "fvm"), "detect_fvm")

\* The continuation of the handler when the awaited child has exited.
Resume(c, ok) ==
  CASE c.pc = "detect_fvm" -> AfterDetectFvm(c, ok)
    [] c.pc = "which_git" -> AfterWhichGit(c, ok)
    [] c.pc = "which_flutter" -> AfterWhichFlutter(c, ok)
    [] c.pc = "step1" -> AfterStep1(c, ok)
    [] c.pc = "step2" -> AfterStep2(c, ok)
    [] c.pc = "step3_init" -> AfterStep3Init(c, ok)
    [] c.pc = "step3_hooks" -> AfterStep3Hooks(c, ok)
    [] c.pc = "step4" -> AfterStep4(c, ok)
    [] c.pc = "step5" -> AfterStep5(c, ok)
    [] c.pc = "step7_add" -> AfterStep7Add(c, ok)
    [] c.pc = "step7_commit" -> AfterStep7Commit(c, ok)
    [] c.pc = "step8_expect" -> runInteractive(c, ok)
    [] c.pc = "step8" -> AfterStep8(c, ok)
    [] c.pc = "step9" -> AfterStep9(c, ok)

Waiting == {"detect_fvm", "which_git", "which_flutter", "step1", "step2",
            "step3_init", "step3_hooks", "step4", "step5", "step7_add",
            "step7_commit", "step8_expect", "step8", "step9"}

\* ----------------------------------------------------------- the actions
Ctx(r) ==
  [pc |-> pc[r], flag |-> useFvm, files |-> files, dry |-> dryRun[r],
   hasGit |-> hasGit[r], detected |-> detected[r], log |-> log[r],
   call |-> call[r], events |-> events[r], result |-> result[r],
   gradle |-> NoContent]

\* The state after instance r has run a segment that ends in context c.
Commit(r, c) ==
  /\ useFvm' = c.flag
  /\ files' = c.files
  /\ pc' = [pc EXCEPT ![r] = c.pc]
  /\ dryRun' = [dryRun EXCEPT ![r] = c.dry]
  /\ hasGit' = [hasGit EXCEPT ![r] = c.hasGit]
  /\ detected' = [detected EXCEPT ![r] = c.detected]
  /\ log' = [log EXCEPT ![r] = c.log]
  /\ call' = [call EXCEPT ![r] = c.call]
  /\ events' = [events EXCEPT ![r] = c.events]
  /\ result' = [result EXCEPT ![r] = c.result]

\* No handler has a result waiting to be sent.
NoneReturned == \A q \in Runs : pc[q] # "done"

\* The awaited child of r has exited with status ok; its effect on the disk
\* has left the paths `disk`, and the build script with the content `script`
\* if the child is one that generates it.
ExitedWith(r, ok, disk, ending, script) ==
  LET p == events[r][Len(events[r])].proc
      exit == [ExitEvent(p, ok, disk \cap Generated(pc[r]), ending)
                 EXCEPT !.content = script]
  IN /\ NoneReturned
     /\ Commit(r, Resume([Ctx(r) EXCEPT !.events = Append(@, exit),
                                        !.files = disk,
                                        !.gradle = script], ok))
     /\ UNCHANGED <<phase, invocations, prior, succeeded, arg, ret>>

ExitedAs(r, ok, disk, ending) == ExitedWith(r, ok, disk, ending, NoContent)

Exited(r, ok, disk) == ExitedAs(r, ok, disk, NoEnding)

Init ==
  /\ phase = "starting"
  /\ useFvm = FALSE
  /\ files \in {{}, {ProjectDir}}
  /\ invocations = 0
  /\ pc = [r \in Runs |-> "idle"]
  /\ dryRun = [r \in Runs |-> FALSE]
  /\ hasGit = [r \in Runs |-> FALSE]
  /\ detected = [r \in Runs |-> FALSE]
  /\ log = [r \in Runs |-> <<>>]
  /\ call = [r \in Runs |-> <<>>]
  /\ events = [r \in Runs |-> <<>>]
  /\ prior = [r \in Runs |-> FALSE]
  /\ succeeded = FALSE
  /\ result = [r \in Runs |-> NoResult]
  /\ arg = <<>>
  /\ ret = <<>>

\* main() (lines 748-755): the startup probe returns, the flag is set and
\* the server is connected; only then can a tool be invoked.
Startup(found) ==
  /\ phase = "starting"
  /\ phase' = "serving"
  /\ useFvm' = found
  /\ UNCHANGED <<files, invocations, pc, dryRun, hasGit, detected, log,
                 call, events, prior, succeeded, result, arg, ret>>

\* A real (not dry) invocation that has returned its success result.
Succeeded(q) == pc[q] = "done" /\ ~dryRun[q] /\ ~result[q].isError

\* A create_flutter_project request arrives and its handler is entered (the
\* instances are interchangeable: the first free one is taken).
Invoke(r, dry_run) ==
  /\ phase = "serving"
  /\ NoneReturned
  /\ pc[r] = "idle"
  /\ \A q \in Runs : q < r => pc[q] # "idle"
  /\ invocations < MaxInvocations
  /\ invocations' = invocations + 1
  /\ prior' = [prior EXCEPT ![r] = succeeded]
  /\ Commit(r, Enter(Ctx(r), dry_run))
  /\ UNCHANGED <<phase, succeeded, arg, ret>>

\* The result of a returned handler is sent to the client and the handler
\* instance is gone.
Deliver(r) ==
  /\ pc[r] = "done"
  /\ succeeded' = (succeeded \/ Succeeded(r))
  /\ pc' = [pc EXCEPT ![r] = "idle"]
  /\ dryRun' = [dryRun EXCEPT ![r] = FALSE]
  /\ hasGit' = [hasGit EXCEPT ![r] = FALSE]
  /\ detected' = [detected EXCEPT ![r] = FALSE]
  /\ log' = [log EXCEPT ![r] = <<>>]
  /\ call' = [call EXCEPT ![r] = <<>>]
  /\ events' = [events EXCEPT ![r] = <<>>]
  /\ prior' = [prior EXCEPT ![r] = FALSE]
  /\ result' = [result EXCEPT ![r] = NoResult]
  /\ UNCHANGED <<phase, useFvm, files, invocations, arg, ret>>

\* `which <cmd>` exits: the executable was found or not.
ProbeExit(r, found) ==
  /\ pc[r] \in {"detect_fvm", "which_git", "which_flutter", "step8_expect"}
  /\ Exited(r, found, files)

\* The template generator of step 2 exits.  On success the project directory
\* exists with the tree of the template; a failed clone may leave the
\* directory behind.
CloneExit(r, ok, tree) ==
  /\ pc[r] = "step2"
  /\ tree \subseteq (IF ok THEN TemplateFiles ELSE {})
  /\ \E left \in (IF ok THEN {{ProjectDir}} ELSE {{}, {ProjectDir}}) :
       Exited(r, ok, files \cup left \cup tree)

\* `git init` of step 3 exits; on success the repository exists.
GitInitExit(r, ok) ==
  /\ pc[r] = "step3_init"
  /\ Exited(r, ok, IF ok THEN files \cup {GitDir} ELSE files)

\* The child of step 8 is the scripted session.
InSession(r) ==
  pc[r] = "step8" /\ events[r][Len(events[r])].proc.command = "expect"

\* Any other command of a step exits (in step 8: the generator run directly).
CommandExit(r, ok, tree, script) ==
  /\ pc[r] \in {"step1", "step3_hooks", "step4", "step5", "step7_add",
                "step7_commit", "step8", "step9"}
  /\ ~InSession(r)
  /\ tree \subseteq (IF ok THEN Generated(pc[r]) ELSE {})
  /\ script \in (IF GradlePath \in (files \cup tree) \cap Generated(pc[r])
                 THEN TemplateScripts ELSE {NoContent})
  /\ ExitedWith(r, ok, files \cup tree, NoEnding, script)

\* The scripted session of step 8 exits: its exit code is the one its script
\* computes from the way the spawned command ended, and run() resolves if it
\* is 0 and throws otherwise.
SessionExit(r, ending) ==
  /\ InSession(r)
  /\ ExitedAs(r, expectScript(ending) = 0, files, ending)

Next ==
  \/ \E found \in BOOLEAN : Startup(found)
  \/ \E r \in Runs, dry_run \in BOOLEAN : Invoke(r, dry_run)
  \/ \E r \in Runs, found \in BOOLEAN : ProbeExit(r, found)
  \/ \E r \in Runs, ok \in BOOLEAN, tree \in SUBSET TemplateFiles : CloneExit(r, ok, tree)
  \/ \E r \in Runs, ok \in BOOLEAN : GitInitExit(r, ok)
  \/ \E r \in Runs, ok \in BOOLEAN, tree \in SUBSET {FlavorizrPath, GradlePath},
          script \in TemplateScripts \cup {NoContent} :
       CommandExit(r, ok, tree, script)
  \/ \E r \in Runs, ending \in Endings : SessionExit(r, ending)
  \/ \E r \in Runs : Deliver(r)

Spec == Init /\ [][Next]_vars

\* ------------------------------------------------- reading the histories
Last(q) == q[Len(q)]

\* The start lines ('[k/11] ...') of a log, in order.
StepLines(l) == SelectSeq(l, LAMBDA e : e.type = "step")

\* The positions of `events` of an instance that hold an event of a kind.
Positions(r, kind) == {i \in 1..Len(events[r]) : events[r][i].kind = kind}

\* A child that runs a command of a step (not a lookup of an executable).
IsCommand(p) == p.command # "which"

\* The children of r that run a command of a step.
CommandsRun(r) == {i \in Positions(r, "spawn") : IsCommand(events[r][i].proc)}

\* The exits of step commands of r that reported failure.
FailedExits(r) ==
  {i \in Positions(r, "exit") : IsCommand(events[r][i].proc) /\ ~events[r][i].ok}

\* In a real run step k runs these commands (steps 6, 10, 11 run none, and
\* the commands of step 3 are guarded).
HasCommand == {1, 2, 4, 5, 7, 8, 9}

DryRunComplete == Line("Dry run complete! No changes were made.")

\* ------------------------------------------------------------------ C1
\* C1: in every run, dry or real, the steps are entered in the order
\* 1, 2, ..., 11: the k-th start line of the log is that of step k (no step
\* skipped, none entered twice); a step is entered only when every command
\* of the earlier steps has been run and has exited with success (and, in a
\* real run, step 6 and step 10 have written their files); and no command is
\* started twice.
C1_StepsInOrder ==
  \A r \in Runs :
    LET st == StepLines(log[r])
        ev == events[r]
        sp == SelectSeq(ev, LAMBDA e : e.kind = "spawn")
        n == Len(st)
    IN /\ n <= TOTAL_STEPS
       /\ \A k \in 1..n : st[k].n = k
       /\ \A i \in 1..Len(sp) :
            /\ sp[i].proc.step <= n
            /\ i > 1 => sp[i - 1].proc.step <= sp[i].proc.step
       /\ Cardinality({sp[i] : i \in 1..Len(sp)}) = Len(sp)
       /\ \A i \in 1..Len(ev) :
            (ev[i].kind = "spawn" /\ IsCommand(ev[i].proc) /\ ev[i].proc.step < n)
              => /\ i < Len(ev)
                 /\ ev[i + 1].kind = "exit"
                 /\ ev[i + 1].proc = ev[i].proc
                 /\ ev[i + 1].ok
       /\ ~dryRun[r] =>
            /\ \A k \in HasCommand : k < n =>
                 \E i \in 1..Len(sp) : IsCommand(sp[i].proc) /\ sp[i].proc.step = k
            /\ n > 6 => \E i \in 1..Len(ev) :
                 ev[i].op = "writeFileSync" /\ ev[i].path = FlavorizrPath
            /\ n > 10 =>
                 \A e \in 1..3 : \E i \in 1..Len(ev) :
                   ev[i].op = "writeFileSync" /\ ev[i].path = ConfigPath(ConfigEnvs[e])

\* A real run has gone through all eleven steps, has run all ten commands
\* (both of step 3 and the scripted session of step 8 among them) and has
\* returned success.
C1_Witness ==
  \E r \in Runs :
    /\ Succeeded(r) /\ Len(StepLines(log[r])) = TOTAL_STEPS
    /\ Cardinality(CommandsRun(r)) = 10

\* ------------------------------------------------------------------ C2
SetupComplete == Line("Setup complete!")

\* C2: in a real run, the exit of a step's command with failure is followed
\* by nothing but the return of an error result that carries that command:
\* no child is started and no file is written after it.  A failed guard
\* check of step 6 or step 11 likewise ends the run with an error: after the
\* descriptor was found missing the run has written no file and started no
\* command of step 7, after the build script was found missing the run has
\* written neither it nor the rules file.  A returned error is never a
\* success text, and the return is the last thing an invocation does.
C2_AbortOnFailure ==
  \A r \in Runs : ~dryRun[r] =>
    LET ev == events[r]
    IN /\ \A i \in FailedExits(r) :
            /\ Len(ev) = i + 1
            /\ ev[i + 1] = ReturnEvent(TRUE)
            /\ pc[r] = "done"
            /\ result[r].isError
            /\ result[r].err = CommandFailed(ev[i].proc)
       /\ \A i \in Positions(r, "return") : i = Len(ev) /\ pc[r] = "done"
       /\ (pc[r] = "done" /\ result[r].isError) =>
            /\ Last(ev) = ReturnEvent(TRUE)
            /\ \A k \in 1..Len(result[r].text) : result[r].text[k] # SetupComplete
       /\ (pc[r] = "done" /\ result[r].err = FlavorizrNotFound) =>
            /\ result[r].isError
            /\ Positions(r, "fs") = {}
            /\ \A i \in Positions(r, "spawn") : ev[i].proc.step < 6
       /\ (pc[r] = "done" /\ result[r].err = GradleNotFound) =>
            /\ result[r].isError
            /\ \A i \in Positions(r, "fs") : ev[i].path \notin {GradlePath, ProguardPath}

\* A real run whose `git commit` of step 7 has failed, after step 6 wrote
\* the descriptor.
C2_Witness ==
  \E r \in Runs : \E i \in FailedExits(r) :
    ~dryRun[r] /\ events[r][i].proc.step = 7 /\ Positions(r, "fs") # {}

\* ------------------------------------------------------------------ C3
\* The step at which a real run failed (0: it did not fail in a step).
FailedStep(r) ==
  IF FailedExits(r) # {}
  THEN events[r][CHOOSE i \in FailedExits(r) : TRUE].proc.step
  ELSE IF result[r].err = FlavorizrNotFound THEN 6
  ELSE IF result[r].err = GradleNotFound THEN 11
  ELSE 0

FailedInStep(r) == pc[r] = "done" /\ ~dryRun[r] /\ result[r].isError /\ FailedStep(r) > 0

HooksCommand == Proc(3, "git", <<"config", "core.hooksPath", ".githooks/">>, ProjectDir)

\* The run failed in the hooks-path command of step 3.
HooksFailed(r) == \E i \in FailedExits(r) : events[r][i].proc = HooksCommand

\* C3 as stated: when step k of a real run fails, the last line of the log
\* in the error payload is the '[k/11]' start line of step k, for every step
\* and every command of the step.
C3_LastLineIsStart ==
  \A r \in Runs : FailedInStep(r) =>
    /\ result[r].text # <<>>
    /\ Last(result[r].text) = Last(StepLines(result[r].text))
    /\ Last(result[r].text).n = FailedStep(r)

\* C3 as amended: when step k of a real run fails (a command of the step
\* exits with failure, or its guard check fails), the error payload holds
\* the failure (for a command: the command and its arguments) and the log so
\* far; the last start line of that log is the '[k/11]' line of step k, and
\* it is the last line of the log, except when the hooks-path command of
\* step 3 fails: then exactly one line follows it, the outcome of the
\* repository check ("initialised" or "already exists").
C3_LogUpToFailingStep ==
  \A r \in Runs : FailedInStep(r) =>
    LET t == result[r].text
        st == StepLines(t)
    IN /\ t = log[r]
       /\ st # <<>>
       /\ Last(st) = stepMsg(FailedStep(r), Last(st).msg)
       /\ Len(st) = FailedStep(r)
       /\ \A i \in FailedExits(r) : result[r].err = CommandFailed(events[r][i].proc)
       /\ IF HooksFailed(r)
          THEN /\ Len(t) >= 2
               /\ t[Len(t) - 1] = Last(st)
               /\ Last(t) \in {Line("Git repository initialised"),
                               Line("Git repository already exists")}
          ELSE Last(t) = Last(st)

\* The hooks-path command has failed after `git init` succeeded.
C3_Witness ==
  \E r \in Runs :
    /\ FailedInStep(r) /\ HooksFailed(r)
    /\ Last(result[r].text) = Line("Git repository initialised")

\* ------------------------------------------------------------------ C4
\* C4: a dry run starts no child but the two lookups `which fvm` and
\* `which git`, each once, calls neither mkdirSync nor writeFileSync, and
\* its returned log ends with the dry-run-complete line.
C4_DryRunNoSideEffect ==
  \A r \in Runs : dryRun[r] =>
    LET ev == events[r]
    IN /\ Positions(r, "fs") = {}
       /\ \A i \in Positions(r, "spawn") :
            /\ i \in {1, 3}
            /\ ev[i].proc = (IF i = 1 THEN Which(0, "fvm") ELSE Which(0, "git"))
       /\ pc[r] = "done" =>
            /\ Last(result[r].text) = DryRunComplete
            /\ Len(ev) = 5

\* A dry run has returned although nothing was found on the PATH and the
\* project directory exists.
C4_Witness ==
  \E r \in Runs :
    /\ pc[r] = "done" /\ dryRun[r]
    /\ ~hasGit[r] /\ ~detected[r] /\ ProjectDir \in files

\* ------------------------------------------------------------------ C5
\* C5: the log a dry run returns has exactly one start line for each step
\* k = 1..11, each of the form '[k/11]', in increasing order of k, and its
\* final line is the one that says 'No changes were made'.
C5_DryRunLog ==
  \A r \in Runs : (pc[r] = "done" /\ dryRun[r]) =>
    LET t == result[r].text
        st == StepLines(t)
    IN /\ ~result[r].isError
       /\ Len(st) = 11
       /\ \A k \in 1..11 : st[k].n = k /\ st[k].of = 11
       /\ t[Len(t)].msg = "Dry run complete! No changes were made."
       /\ \A i \in 1..(Len(t) - 1) : t[i] # t[Len(t)]

\* A dry run has returned its log, in WRAPPED mode.
C5_Witness ==
  \E r \in Runs :
    /\ pc[r] = "done" /\ dryRun[r]
    /\ result[r].text[5] = Header("Runner", "fvm")
    /\ Len(result[r].text) > 30

\* ------------------------------------------------------------------ C6
PreflightWait == {"which_git", "which_flutter"}
PreflightErrors == {ToolchainMissing, GitMissing, DirectoryExists}

\* The lookup of flutter by r came back empty.
FlutterMissing(r) ==
  \E i \in Positions(r, "exit") :
    events[r][i].proc = Which(0, "flutter") /\ ~events[r][i].ok

HeaderKeys == <<"Project", "Org", "Template", "Location", "Runner">>

\* The step in which real run r leaves the pre-flight with one of its three
\* requirements violated (flutter looked for and not found, git not found,
\* or the project directory on disk) ends the run before step 1: an error
\* result with one of the pre-flight errors, no command run, nothing
\* written, no step entered.  The log returned is empty (emptyLog) or holds
\* the five header lines.
PreflightAborts(r, emptyLog) ==
  (/\ ~dryRun[r]
   /\ pc[r] \in PreflightWait
   /\ pc'[r] \notin PreflightWait
   /\ FlutterMissing(r)' \/ ~hasGit'[r] \/ ProjectDir \in files)
  => /\ pc'[r] = "done"
     /\ result'[r].isError
     /\ result'[r].err \in PreflightErrors
     /\ CommandsRun(r)' = {}
     /\ Positions(r, "fs")' = {}
     /\ files' = files
     /\ StepLines(result'[r].text) = <<>>
     /\ IF emptyLog
        THEN result'[r].text = <<>>
        ELSE /\ Len(result'[r].text) = 5
             /\ \A k \in 1..5 : /\ result'[r].text[k].type = "header"
                                /\ result'[r].text[k].msg = HeaderKeys[k]

\* C6 as stated: a real run whose pre-flight finds no toolchain, no git or
\* the project directory aborts before step 1 with a pre-flight error, and
\* the log returned with the failure has no entries.
C6_EmptyLog == [][\A r \in Runs : PreflightAborts(r, TRUE)]_vars

\* C6 as amended: a real run whose pre-flight finds no toolchain, no git or
\* the project directory aborts before step 1 (no step command is run,
\* nothing is written) with a pre-flight error; the log returned with the
\* failure holds no step entry, only the five header lines Project, Org,
\* Template, Location and Runner.
C6_PreflightAbort == [][\A r \in Runs : PreflightAborts(r, FALSE)]_vars

\* A real run has been ended by the pre-flight because the project
\* directory exists.
C6_Witness ==
  \E r \in Runs :
    /\ pc[r] = "done" /\ ~dryRun[r]
    /\ result[r].err = DirectoryExists
    /\ Len(result[r].text) = 5

\* ------------------------------------------------------------------ C7
\* C7: a real run entered after an earlier real run has returned success
\* (whose project directory is still there) never gets past the pre-flight:
\* it enters no step, runs no command, writes nothing and returns a
\* pre-flight error, which is 'directory already exists' whenever its own
\* lookups found git and a toolchain.
C7_SecondRunFails ==
  \A r \in Runs : (~dryRun[r] /\ prior[r]) =>
    /\ pc[r] \in {"detect_fvm", "which_git", "which_flutter", "done"}
    /\ StepLines(log[r]) = <<>>
    /\ CommandsRun(r) = {}
    /\ Positions(r, "fs") = {}
    /\ pc[r] = "done" =>
         /\ result[r].isError
         /\ result[r].err \in PreflightErrors
         /\ StepLines(result[r].text) = <<>>
         /\ (hasGit[r] /\ ~FlutterMissing(r)) => result[r].err = DirectoryExists

\* The second of two real runs in sequence has returned 'already exists'.
C7_Witness ==
  \E r \in Runs :
    /\ prior[r] /\ ~dryRun[r] /\ pc[r] = "done"
    /\ result[r].err = DirectoryExists
    /\ succeeded /\ ProjectDir \in files

\* ------------------------------------------------------------------ C8
\* The command of step 5 of real run r exits with success and leaves no
\* descriptor on disk.
Step6FindsNoDescriptor(r) ==
  /\ ~dryRun[r]
  /\ pc[r] = "step5"
  /\ pc'[r] # "step5"
  /\ events[r]'[Len(events[r]) + 1].ok
  /\ FlavorizrPath \notin events[r]'[Len(events[r]) + 1].disk

\* The run is ended by the structural-template error, the descriptor is not
\* written, and the returned log ends as given.
Step6Aborts(r, lastLines) ==
  /\ pc'[r] = "done"
  /\ result'[r].isError
  /\ result'[r].err = FlavorizrNotFound
  /\ FlavorizrPath \notin files'
  /\ Positions(r, "fs")' = {}
  /\ Len(result'[r].text) > Len(lastLines)
  /\ SubSeq(result'[r].text, Len(result'[r].text) - Len(lastLines) + 1,
            Len(result'[r].text)) = lastLines

\* C8 as stated: if flavorizr.yaml is absent when step 6 runs, the run
\* aborts with the structural-template error without writing it, and the
\* log has entries only through the completion of step 5: it holds no entry
\* of step 6.
C8_NoStep6Entry ==
  [][\A r \in Runs : Step6FindsNoDescriptor(r) =>
       /\ Step6Aborts(r, <<Line("Localisations generated")>>)
       /\ Len(StepLines(result'[r].text)) = 5]_vars

\* C8 as amended: if flavorizr.yaml is absent when step 6 runs, the run
\* aborts with the structural-template error without writing it, and the
\* log has the entries through the completion of step 5 followed by one
\* entry of step 6, its '[6/11]' start line, which is the last line.
C8_LogThroughStep6Start ==
  [][\A r \in Runs : Step6FindsNoDescriptor(r) =>
       /\ Step6Aborts(r, <<Line("Localisations generated"),
                           stepMsg(6, "Updating flavorizr.yaml")>>)
       /\ Len(StepLines(result'[r].text)) = 6]_vars

\* A real run has been ended by the missing descriptor.
C8_Witness ==
  \E r \in Runs :
    /\ pc[r] = "done" /\ ~dryRun[r]
    /\ result[r].err = FlavorizrNotFound
    /\ FlavorizrPath \notin files

\* ------------------------------------------------------------------ C9
\* C9: if android/app/build.gradle.kts is not on disk once the command of
\* step 9 of a real run has exited with success and steps 10 and 11 have run
\* (without a further await), step 11 has failed: the build script was not
\* created, the run has returned an error and not the setup-complete text,
\* and it has written neither the build script nor proguard-rules.pro.
C9_MissingBuildScript ==
  [][\A r \in Runs :
       (/\ ~dryRun[r]
        /\ pc[r] = "step9"
        /\ pc'[r] # "step9"
        /\ events[r]'[Len(events[r]) + 1].ok
        /\ GradlePath \notin events[r]'[Len(events[r]) + 1].disk)
       => /\ pc'[r] = "done"
          /\ result'[r].isError
          /\ result'[r].err = GradleNotFound
          /\ (ProguardPath \in files') = (ProguardPath \in files)
          /\ \A i \in Positions(r, "fs")' :
               events[r]'[i].path \notin {GradlePath, ProguardPath}
          /\ \A k \in 1..Len(result'[r].text) : result'[r].text[k] # SetupComplete
          /\ Last(StepLines(result'[r].text)).n = 11]_vars

\* A real run has been ended in step 11 by the missing build script, after
\* step 10 wrote the config files.
C9_Witness ==
  \E r \in Runs :
    /\ pc[r] = "done" /\ ~dryRun[r]
    /\ result[r].err = GradleNotFound
    /\ GradlePath \notin files
    /\ ConfigPath("uat") \in files

\* ----------------------------------------------------------------- C10
\* The children of r that run dart or flutter, directly or through fvm.
ToolchainCommands(r) ==
  {i \in Positions(r, "spawn") : events[r][i].proc.step \in {1, 2, 4, 5}}

\* C10: whatever the interleaving of invocations, from the return of a
\* run's own entry probe to its result the flag holds what that probe
\* detected, and every dart or flutter command of the run is resolved under
\* that mode: through fvm if and only if the run's entry probe found fvm.
C10_ModeFixedDuringRun ==
  \A r \in Runs :
    /\ pc[r] \in Waiting \ {"detect_fvm"} => useFvm = detected[r]
    /\ \A i \in ToolchainCommands(r) :
         (events[r][i].proc.command = "fvm") = detected[r]

\* ----------------------------------------------------------------- C11
\* Real run r resumes from the last lookup of its pre-flight with a toolchain
\* and git found, so this segment performs the existence check on the
\* project directory.
ChecksDirectory(r) ==
  /\ ~dryRun[r]
  /\ \/ pc[r] = "which_git" /\ useFvm
     \/ pc[r] = "which_flutter" /\ hasGit[r]
  /\ pc'[r] # pc[r]
  /\ events[r]'[Len(events[r]) + 1].ok

\* C11: whatever the interleaving of the invocations, a real run that
\* performs its existence check when the project directory is on disk
\* (created by another run or there before) returns the 'already exists'
\* error in that very segment: it enters no step, starts no command and
\* writes nothing.
C11_LateCheckAborts ==
  [][\A r \in Runs : (ChecksDirectory(r) /\ ProjectDir \in files) =>
       /\ pc'[r] = "done"
       /\ result'[r].isError
       /\ result'[r].err = DirectoryExists
       /\ StepLines(result'[r].text) = <<>>
       /\ CommandsRun(r)' = {}
       /\ Positions(r, "fs")' = {}
       /\ files' = files]_vars

\* Two real runs overlap: one has cloned the template and is still in
\* flight, the other has been ended by the existence check.
C11_Witness ==
  \E r, q \in Runs :
    /\ r # q /\ ~dryRun[r] /\ ~dryRun[q]
    /\ pc[r] \in Waiting
    /\ \E i \in Positions(r, "exit") :
         events[r][i].proc.step = 2 /\ events[r][i].ok
    /\ pc[q] = "done" /\ result[q].err = DirectoryExists
    /\ StepLines(result[q].text) = <<>>

\* ----------------------------------------------------------------- C12
\* The children of r that have been started and have not exited.
Outstanding(r) ==
  LET ev == events[r]
  IN {i \in 1..Len(ev) :
        /\ ev[i].kind = "spawn"
        /\ \A j \in (i + 1)..Len(ev) : ev[j].kind # "exit" \/ ev[j].proc # ev[i].proc}

\* C12: a run has at most one child outstanding.  Every child it starts
\* (lookup, step command or interactive session) is the last thing the run
\* has done for as long as the child runs, and the next thing recorded is
\* that child's exit: no child is started, and nothing is written, while
\* another child of the same run is running.  A run has a child outstanding
\* exactly while its handler is suspended in an await.
C12_OneChildAtATime ==
  \A r \in Runs :
    LET ev == events[r]
        out == Outstanding(r)
    IN /\ out = {} \/ out = {Len(ev)}
       /\ (pc[r] \in Waiting) = (out # {})
       /\ \A i \in 1..Len(ev) :
            /\ (ev[i].kind = "spawn" /\ i < Len(ev)) =>
                 ev[i + 1].kind = "exit" /\ ev[i + 1].proc = ev[i].proc
            /\ ev[i].kind = "exit" =>
                 i > 1 /\ ev[i - 1].kind = "spawn" /\ ev[i - 1].proc = ev[i].proc

\* The scripted session of step 8 is the one child outstanding of a real
\* run whose eleven earlier children have all exited.
C12_Witness ==
  \E r \in Runs :
    /\ pc[r] = "step8"
    /\ Last(events[r]).kind = "spawn" /\ Last(events[r]).proc.command = "expect"
    /\ Outstanding(r) = {Len(events[r])}
    /\ Cardinality(Positions(r, "exit")) = 11

\* ----------------------------------------------------------------- C13
AddCommand == Proc(7, "git", <<"add", "-A">>, ProjectDir)
CommitCommand ==
  Proc(7, "git", <<"commit", "-m", "Initial project setup before flavorizr">>, ProjectDir)
RevertCommand ==
  Proc(9, "git", <<"checkout", "--", "lib/main.dart", "lib/app.dart">>, ProjectDir)

\* Command p of r has exited with success before position i of its history.
SucceededBefore(r, p, i) ==
  \E j \in 1..(i - 1) :
    events[r][j].kind = "exit" /\ events[r][j].proc = p /\ events[r][j].ok

\* C13: in every run, whatever step 8 starts (the lookup of expect, the
\* scripted session or the generator itself) is started only after `git add`
\* and the snapshot `git commit` of step 7 have both exited with success in
\* the same run; the only command step 9 starts is
\* `git checkout -- lib/main.dart lib/app.dart` in the project directory, and
\* it is started only after that commit has succeeded (and after the command
\* of step 8 has).
C13_RevertAfterSnapshot ==
  \A r \in Runs :
    LET ev == events[r]
    IN \A i \in 1..Len(ev) :
         /\ (ev[i].kind = "spawn" /\ ev[i].proc.step = 8) =>
              /\ SucceededBefore(r, AddCommand, i)
              /\ SucceededBefore(r, CommitCommand, i)
         /\ (ev[i].kind = "spawn" /\ ev[i].proc.step = 9) =>
              /\ ev[i].proc = RevertCommand
              /\ SucceededBefore(r, CommitCommand, i)
              /\ ev[i - 1].kind = "exit" /\ ev[i - 1].proc.step = 8 /\ ev[i - 1].ok
              /\ IsCommand(ev[i - 1].proc)

\* A real run has started the revert of step 9.
C13_Witness ==
  \E r \in Runs :
    /\ pc[r] = "step9" /\ ~dryRun[r]
    /\ Last(events[r]) = SpawnEvent(RevertCommand)
    /\ SucceededBefore(r, CommitCommand, Len(events[r]))

\* ----------------------------------------------------------------- C14
\* Sequence s is t or a prefix of t.
IsPrefix(s, t) == Len(s) <= Len(t) /\ SubSeq(t, 1, Len(s)) = s

\* C14: from the entry of a handler until its result has been sent, every
\* step of the system leaves the lines already in the run's log in place, in
\* their order (lines are only appended); and the result the handler
\* returns, the success text as well as the error payload, carries the whole
\* log: every line appended during the run, in append order.
C14_LogAppendOnly ==
  [][\A r \in Runs : (pc[r] # "idle" /\ pc'[r] # "idle") =>
       /\ IsPrefix(log[r], log'[r])
       /\ pc'[r] = "done" => result'[r].text = log'[r]
       /\ pc[r] = "done" => log'[r] = log[r] /\ result'[r] = result[r]]_vars

\* A real run has failed in step 7 or later, and its error payload carries
\* the lines of all the steps it went through.
C14_Witness ==
  \E r \in Runs :
    /\ pc[r] = "done" /\ ~dryRun[r] /\ result[r].isError
    /\ Len(StepLines(result[r].text)) >= 7
    /\ result[r].text = log[r]

\* ----------------------------------------------------------------- C15
\* The command line of the generator as step 8 resolves it, in either
\* runner mode.
FlavorizrTargets ==
  {<<fvmCmd(flag, "flutter")>> \o
     fvmArgs(flag, "flutter", <<"pub", "run", "flutter_flavorizr">>) :
       flag \in BOOLEAN}

EnvHints == {"CI=true", "TERM=dumb"}

\* C15: in a real run, step 8 starts its command through runInteractive: it
\* first looks for expect and then starts exactly one child.  If expect was
\* not found, that child is the target command itself, with its own
\* arguments, in the project directory, with CI=true and TERM=dumb added to
\* the environment and without a script; if expect was found, that child is
\* one `expect -c <script>` whose script spawns the target command, with no
\* environment hint, and the target command is not started directly.
C15_InteractiveExecutor ==
  \A r \in Runs :
    LET ev == events[r]
    IN /\ Cardinality({i \in 1..Len(ev) :
            ev[i].kind = "spawn" /\ ev[i].proc.step = 8 /\ IsCommand(ev[i].proc)}) <= 1
       /\ \A i \in 1..Len(ev) :
            /\ (ev[i].kind = "exit" /\ ev[i].proc = Which(8, "expect")) =>
                 /\ i < Len(ev)
                 /\ ev[i + 1].kind = "spawn"
                 /\ ev[i + 1].proc.step = 8
                 /\ ev[i + 1].proc.cwd = ProjectDir
                 /\ IF ev[i].ok
                    THEN /\ ev[i + 1].proc.command = "expect"
                         /\ ev[i + 1].proc.args = <<"-c", "expectScript">>
                         /\ ev[i + 1].proc.script \in FlavorizrTargets
                         /\ ev[i + 1].proc.env = {}
                    ELSE /\ <<ev[i + 1].proc.command>> \o ev[i + 1].proc.args
                              \in FlavorizrTargets
                         /\ ev[i + 1].proc.env = EnvHints
                         /\ ev[i + 1].proc.script = <<>>
            /\ (ev[i].kind = "spawn" /\ ev[i].proc.step = 8 /\ IsCommand(ev[i].proc)) =>
                 /\ i > 1
                 /\ ev[i - 1].kind = "exit" /\ ev[i - 1].proc = Which(8, "expect")

\* Two real runs are in step 8: one found expect and runs the scripted
\* session, the other did not and runs the generator directly with the
\* hints.
C15_Witness ==
  \E r, q \in Runs :
    /\ pc[r] = "step8" /\ pc[q] = "step8"
    /\ Last(events[r]).proc.command = "expect"
    /\ Last(events[r]).proc.script \in FlavorizrTargets
    /\ Last(events[q]).proc.command # "expect"
    /\ Last(events[q]).proc.env = EnvHints

\* ----------------------------------------------------------------- C16
\* A handler that awaits a child or has returned moves on: its pc changes.
\* Within Spec the steps that change pc in this way are exactly the exits of
\* children (ProbeExit, CloneExit, GitInitExit, CommandExit, SessionExit) and
\* Deliver, and such a step is possible exactly when one of those actions is
\* enabled (a result is waiting to be sent, or else a child is running).
Moves ==
  \E r \in Runs :
    /\ pc[r] \in Waiting \cup {"done"}
    /\ \E at \in (Waiting \cup {"idle", "done"}) \ {pc[r]} :
         pc' = [pc EXCEPT ![r] = at]

\* Every child eventually exits (the session of step 8 at the latest when
\* `set timeout 300` of its script expires), and a returned result is
\* eventually sent: while a child is running or a result is waiting, one of
\* them makes its step.  The invocations of a behaviour are finitely many and
\* each of them starts finitely many children, so this leaves every child
\* with its exit.
FairSpec == Spec /\ WF_pc(Moves)

\* Handler r has returned one result: the success log, or an error payload.
Returned(r) ==
  /\ pc[r] = "done"
  /\ Cardinality(Positions(r, "return")) = 1
  /\ result[r].text = log[r]
  /\ result[r].isError = (result[r].err # NoError)

\* C16: if every child eventually exits, no invocation stays suspended for
\* ever: every handler that awaits a child is later at its return (or, once
\* its result has been sent, gone).  A handler that has returned has
\* returned exactly one result, the success log or an error payload; and a
\* handler never ends otherwise: the only way a handler instance that was
\* entered goes away is by its returned result being sent.
C16_RunsToCompletion ==
  /\ \A r \in Runs : []<>(pc[r] \notin Waiting)
  /\ [](\A r \in Runs : pc[r] \in Waiting \cup {"idle", "done"})
  /\ [](\A r \in Runs : pc[r] = "done" => Returned(r))
  /\ [][\A r \in Runs : (pc[r] # "idle" /\ pc'[r] = "idle") => pc[r] = "done"]_vars

\* A real run that went through the scripted session of step 8 has returned
\* its result.
C16_Witness ==
  \E r \in Runs :
    /\ Returned(r) /\ ~dryRun[r]
    /\ \E i \in Positions(r, "exit") : events[r][i].proc.command = "expect"

\* ----------------------------------------------------------------- C17
\* The steps whose command is resolved through the runner.
ToolchainSteps == {1, 2, 4, 5, 8}

\* The command line that the dry run wrote under the start line of step k
\* (<<>>: the log does not hold it).  The line is the executable and the
\* arguments separated by single spaces; none of the arguments of the
\* modelled request holds a space, so the words of the line are the
\* executable and the arguments.
DryCommandLine(l, k) ==
  LET at == {i \in 1..(Len(l) - 1) :
               l[i].type = "step" /\ l[i].n = k /\ l[i + 1].type = "dry-run"}
  IN IF at = {} THEN <<>> ELSE l[(CHOOSE i \in at : TRUE) + 1].cmd

\* The executable and the arguments that real run q passed to the executor
\* in step k (<<>>: it has not got there).  In step 8 the executor is
\* runInteractive, which passes them on directly or inside the script of
\* the session.
RealCommandLine(q, k) ==
  LET ev == events[q]
      at == {i \in 1..Len(ev) :
               ev[i].kind = "spawn" /\ ev[i].proc.step = k /\ IsCommand(ev[i].proc)}
      p == ev[CHOOSE i \in at : TRUE].proc
  IN IF at = {} THEN <<>>
     ELSE IF p.command = "expect" THEN p.script
     ELSE <<p.command>> \o p.args

\* The runner mode a run reported in its header is WRAPPED.
ReportedWrapped(r) == log[r][5] = Header("Runner", "fvm")

\* C17: take a dry run and a real run of the same request, and a step among
\* 1, 2, 4, 5 and 8 that both have reached.  If the real run resolved the
\* command of the step in the runner mode of the dry run, the command line
\* the dry run logged for the step is the executable followed by the
\* arguments that the real run passed to the executor for that step.  The
\* dry run logs such a line for each of these steps.
C17_DryRunMatchesReal ==
  \A r, q \in Runs :
    (dryRun[r] /\ pc[r] = "done" /\ ~dryRun[q] /\ pc[q] # "idle") =>
      \A k \in ToolchainSteps :
        LET dry == DryCommandLine(log[r], k)
            real == RealCommandLine(q, k)
        IN /\ dry # <<>>
           /\ (real # <<>> /\ (real[1] = "fvm") = ReportedWrapped(r)) => dry = real

\* A dry run has returned while a real run that resolved its commands in
\* the same mode is in step 8, in WRAPPED mode.
C17_Witness ==
  \E r, q \in Runs :
    /\ dryRun[r] /\ pc[r] = "done" /\ ~dryRun[q] /\ pc[q] = "step8"
    /\ ReportedWrapped(r)
    /\ \A k \in ToolchainSteps :
         /\ RealCommandLine(q, k) # <<>>
         /\ RealCommandLine(q, k)[1] = "fvm"
         /\ DryCommandLine(log[r], k) = RealCommandLine(q, k)

\* ----------------------------------------------------------------- C18
\* fvmCmd and fvmArgs on their own: a runner mode and a logical command with
\* its arguments are drawn, and the command is resolved.
MaxArgs == 3
LogicalCommands == {"flutter", "dart"}
Words == {"pub", "get"}
ArgLists == UNION {[1..n -> Words] : n \in 0..MaxArgs}

\* The mode is in useFvm, the logical command and its arguments are in
\* call[1], and nothing is resolved yet.
ResolverInit ==
  /\ phase = "resolving"
  /\ useFvm \in BOOLEAN
  /\ \E cmd \in LogicalCommands, args \in ArgLists :
       call = [r \in Runs |-> IF r = 1 THEN <<cmd>> \o args ELSE <<>>]
  /\ files = {}
  /\ invocations = 0
  /\ pc = [r \in Runs |-> "idle"]
  /\ dryRun = [r \in Runs |-> FALSE]
  /\ hasGit = [r \in Runs |-> FALSE]
  /\ detected = [r \in Runs |-> FALSE]
  /\ log = [r \in Runs |-> <<>>]
  /\ events = [r \in Runs |-> <<>>]
  /\ prior = [r \in Runs |-> FALSE]
  /\ succeeded = FALSE
  /\ result = [r \in Runs |-> NoResult]
  /\ arg = <<>>
  /\ ret = <<>>

\* run(fvmCmd(cmd), fvmArgs(cmd, args)): the resolved command is started.
Resolve ==
  /\ phase = "resolving"
  /\ events[1] = <<>>
  /\ LET cmd == Head(call[1])
         args == Tail(call[1])
         p == Proc(0, fvmCmd(useFvm, cmd), fvmArgs(useFvm, cmd, args), "")
     IN events' = [events EXCEPT ![1] = <<SpawnEvent(p)>>]
  /\ UNCHANGED <<phase, useFvm, files, invocations, pc, dryRun, hasGit,
                 detected, log, call, prior, succeeded, result, arg, ret>>

ResolverSpec == ResolverInit /\ [][Resolve]_vars

\* C18: in mode WRAPPED the resolved executable is the wrapper `fvm` and the
\* resolved arguments are the logical command name followed by the original
\* arguments, unchanged and in order; in mode DIRECT the resolved executable
\* is the logical command name and the arguments are the original ones.
C18_ResolvedCommand ==
  events[1] # <<>> =>
    LET p == events[1][1].proc
        cmd == Head(call[1])
        args == Tail(call[1])
    IN IF useFvm
       THEN /\ p.command = "fvm"
            /\ Len(p.args) = Len(args) + 1
            /\ p.args[1] = cmd
            /\ \A i \in 1..Len(args) : p.args[i + 1] = args[i]
       ELSE /\ p.command = cmd
            /\ p.args = args

\* `flutter pub get` has been resolved in mode WRAPPED.
C18_Witness ==
  /\ useFvm
  /\ call[1] = <<"flutter", "pub", "get">>
  /\ events[1] # <<>>
  /\ events[1][1].proc.command = "fvm"
  /\ events[1][1].proc.args = <<"flutter", "pub", "get">>

\* ----------------------------------------------------------------- C19
InitCommand == Proc(3, "git", <<"init">>, ProjectDir)

\* The awaited child of real run r exits with success where the handler
\* waits at `at`.
ResumesFrom(r, at) ==
  /\ ~dryRun[r]
  /\ pc[r] = at
  /\ pc'[r] # at
  /\ events[r]'[Len(events[r]) + 1].ok

\* What r has done by the end of the step, beyond what it had done before.
Started(r) == SubSeq(events[r]', Len(events[r]) + 2, Len(events[r]'))
Logged(r) == SubSeq(log[r]', Len(log[r]) + 1, Len(log[r]'))

\* C19: step 3 of a real run is guarded.  When the step starts (the clone of
\* step 2 has succeeded), `git init` is started if and only if the project
\* directory holds no .git, and nothing else is started before it has
\* exited.  When the step gets to its second half (at once if .git was
\* there, otherwise when `git init` has succeeded), the hooks-path command is
\* started if and only if the project directory holds .githooks.  If .git is
\* there and .githooks is not, the step starts no command, logs that the
\* repository exists and that the hook setup is skipped, and the run goes on
\* to step 4.  The step writes nothing itself.
C19_Step3Guarded ==
  [][\A r \in Runs :
       /\ ResumesFrom(r, "step2") =>
            /\ (GitDir \notin files') = (Started(r) = <<SpawnEvent(InitCommand)>>)
            /\ (GitDir \in files' /\ HooksDir \in files') =
                 (Started(r) = <<SpawnEvent(HooksCommand)>>)
            /\ (GitDir \in files' /\ HooksDir \notin files') =>
                 /\ pc'[r] = "step4"
                 /\ \A i \in 1..Len(Started(r)) : Started(r)[i].proc.step = 4
                 /\ SubSeq(Logged(r), 1, 5) =
                      << Line("Template cloned"),
                         stepMsg(3, "Initialising Git repository"),
                         Line("Git repository already exists"),
                         Line("No .githooks/ directory found - skipping hook setup"),
                         stepMsg(4, "Installing Flutter dependencies") >>
       /\ ResumesFrom(r, "step3_init") =>
            /\ (HooksDir \in files') = (Started(r) = <<SpawnEvent(HooksCommand)>>)
            /\ HooksDir \notin files' => pc'[r] = "step4"
       /\ (ResumesFrom(r, "step2") \/ ResumesFrom(r, "step3_init")) =>
            Positions(r, "fs")' = {}]_vars

\* A real run has gone through step 3 without starting a command: the
\* template came with its repository and without a hooks directory.
C19_Witness ==
  \E r \in Runs :
    /\ pc[r] = "step4" /\ ~dryRun[r]
    /\ \A i \in Positions(r, "spawn") : events[r][i].proc.step # 3
    /\ \E k \in 1..Len(log[r]) : log[r][k] = Line("Git repository already exists")
    /\ \E k \in 1..Len(log[r]) :
         log[r][k] = Line("No .githooks/ directory found - skipping hook setup")
    /\ GitDir \in files /\ HooksDir \notin files

\* ----------------------------------------------------------------- C20
\* The exits of scripted sessions of r.
SessionExits(r) ==
  {i \in 1..Len(events[r]) :
     events[r][i].kind = "exit" /\ events[r][i].proc.command = "expect"}

\* C20: when step 8 runs the generator in a scripted session, the outcome of
\* the executor is the exit code of the session.  The executor succeeds, and
\* the run goes on to start the revert of step 9, if and only if the spawned
\* command ended by itself with exit status 0.  If it ended with another
\* status, or if the 300-unit timeout of the script came first, the session
\* exits with a code other than 0: step 8 fails, the run returns the error
\* of the failed `expect` command with '[8/11]' as its last start line, and
\* it never starts the command of step 9.
C20_SessionOutcome ==
  \A r \in Runs :
    LET ev == events[r]
    IN \A i \in SessionExits(r) :
         /\ ev[i].ending \in Endings
         /\ ev[i].ok = (ev[i].ending.how = "eof" /\ ev[i].ending.value = 0)
         /\ ev[i].ending.how = "timeout" => ~ev[i].ok
         /\ ev[i].ok => i < Len(ev) /\ ev[i + 1] = SpawnEvent(RevertCommand)
         /\ ~ev[i].ok =>
              /\ Len(ev) = i + 1 /\ ev[i + 1] = ReturnEvent(TRUE)
              /\ pc[r] = "done"
              /\ result[r].isError
              /\ result[r].err = CommandFailed(ev[i].proc)
              /\ Last(StepLines(result[r].text)).n = 8
              /\ \A j \in 1..Len(ev) : ev[j].proc.step # 9

\* A real run has failed in step 8 because its scripted session timed out.
C20_Witness ==
  \E r \in Runs : \E i \in SessionExits(r) :
    /\ events[r][i].ending.how = "timeout"
    /\ pc[r] = "done" /\ result[r].isError
    /\ result[r].err.command = "expect"

\* ----------------------------------------------------------------- C21
\* run() on its own.
\* No handler is in flight: the state of the server apart from arg and ret.
NoHandler ==
  /\ useFvm = FALSE
  /\ files = {}
  /\ invocations = 0
  /\ pc = [r \in Runs |-> "idle"]
  /\ dryRun = [r \in Runs |-> FALSE]
  /\ hasGit = [r \in Runs |-> FALSE]
  /\ detected = [r \in Runs |-> FALSE]
  /\ log = [r \in Runs |-> <<>>]
  /\ call = [r \in Runs |-> <<>>]
  /\ events = [r \in Runs |-> <<>>]
  /\ prior = [r \in Runs |-> FALSE]
  /\ succeeded = FALSE
  /\ result = [r \in Runs |-> NoResult]

\* A command and a way for its child to end are drawn.
RunInit ==
  /\ phase = "run"
  /\ NoHandler
  /\ \E child \in Children :
       arg = [command |-> "git", args |-> <<"add", "-A">>, child |-> child]
  /\ ret = <<>>

RunSettles ==
  /\ phase = "run"
  /\ ret = <<>>
  /\ ret' = <<run(arg.command, arg.args, arg.child)>>
  /\ UNCHANGED <<phase, useFvm, files, invocations, pc, dryRun, hasGit,
                 detected, log, call, events, prior, succeeded, result, arg>>

RunSpec == RunInit /\ [][RunSettles]_vars

\* The characters of a text that are not whitespace, in order.
Visible(t) == SelectSeq(t, LAMBDA ch : ch \notin Whitespace)

\* C21: if the child exits with code 0, run() returns, and what it returns
\* is the combined output: the content of the output stream followed by
\* that of the error stream, without whitespace at either end.  Otherwise
\* run() throws an error that names the command and its arguments, and the
\* diagnostic text of the error is the content of the error stream if that
\* is not empty, else the content of the output stream if that is not
\* empty, else the generic failure description.
C21_RunOutcome ==
  ret # <<>> =>
    LET out == ret[1]
        child == arg.child
    IN IF child.code = 0
       THEN /\ ~out.threw
            /\ Visible(out.value) = Visible(child.stdout) \o Visible(child.stderr)
            /\ out.value # <<>> =>
                 Head(out.value) \notin Whitespace
                 /\ out.value[Len(out.value)] \notin Whitespace
       ELSE /\ out.threw
            /\ out.error.msg = "Command failed"
            /\ out.error.command = arg.command
            /\ out.error.args = arg.args
            /\ child.stderr # <<>> => out.diagnostic = child.stderr
            /\ (child.stderr = <<>> /\ child.stdout # <<>>) =>
                 out.diagnostic = child.stdout
            /\ (child.stderr = <<>> /\ child.stdout = <<>>) =>
                 out.diagnostic = GenericMessage

\* A child has failed with an empty error stream and something on its
\* output stream, and run() has thrown with that as the diagnostic text.
C21_Witness ==
  /\ ret # <<>>
  /\ arg.child.code = 1 /\ arg.child.stderr = <<>> /\ arg.child.stdout = <<"x">>
  /\ ret[1].threw /\ ret[1].diagnostic = <<"x">>

\* ----------------------------------------------------------------- C23
\* toDisplayName() and toAppId() on their own.
NameInit ==
  /\ phase = "names"
  /\ NoHandler
  /\ \E pkg \in PackageNames : arg = [pkg |-> pkg]
  /\ ret = <<>>

Derive ==
  /\ phase = "names"
  /\ ret = <<>>
  /\ ret' = <<[displayName |-> toDisplayName(arg.pkg), appId |-> toAppId(arg.pkg)]>>
  /\ UNCHANGED <<phase, useFvm, files, invocations, pc, dryRun, hasGit,
                 detected, log, call, events, prior, succeeded, result, arg>>

NameSpec == NameInit /\ [][Derive]_vars

\* How many of the first i characters of t are underscores.
Underscores(t, i) == Cardinality({j \in 1..i : t[j] = "_"})

\* C23: for a name of the accepted shape, the application identifier is the
\* name with every underscore removed (each other character is kept, in
\* order), and the display name is the name, character for character, with
\* a space for each underscore and with the first character of each
\* underscore-separated word in upper case; so both are determined by the
\* name alone.  For telecom_app they are telecomapp and Telecom App.
C23_DerivedNames ==
  ret # <<>> =>
    LET pkg == arg.pkg
        id == ret[1].appId
        shown == ret[1].displayName
    IN /\ DART_PACKAGE_NAME_RE(pkg)
       /\ Len(id) = Len(pkg) - Underscores(pkg, Len(pkg))
       /\ \A i \in 1..Len(pkg) :
            pkg[i] # "_" => id[i - Underscores(pkg, i)] = pkg[i]
       /\ Len(shown) = Len(pkg)
       /\ \A i \in 1..Len(pkg) :
            shown[i] = IF pkg[i] = "_" THEN " "
                       ELSE IF i = 1 \/ pkg[i - 1] = "_" THEN toUpperCase(pkg[i])
                       ELSE pkg[i]
       /\ pkg = TelecomApp =>
            /\ id = <<"t", "e", "l", "e", "c", "o", "m", "a", "p", "p">>
            /\ shown = <<"T", "e", "l", "e", "c", "o", "m", " ", "A", "p", "p">>

\* The names of a package with two underscores in a row have been derived.
C23_Witness ==
  /\ ret # <<>>
  /\ arg.pkg = <<"a", "_", "_", "b">>
  /\ ret[1].appId = <<"a", "b">>
  /\ ret[1].displayName = <<"A", " ", " ", "B">>

\* ----------------------------------------------------------------- C22
\* The members of the object that a JSON text of string members stands for,
\* read off the text: a key is the item before `":`, its value the
\* characters between the next two quotes.
Colons(text) == {i \in 1..Len(text) : text[i] = ":"}
Members(text) ==
  {[key |-> text[i - 2],
    value |-> SubSeq(text, i + 3,
                     Least({j \in (i + 3)..Len(text) : text[j] = Quote}) - 1)] :
     i \in Colons(text)}

ExpectedConfig(env) ==
  {[key |-> "secretKey",
    value |-> CASE env = "dev" -> <<"D", "E", "V">>
                [] env = "prod" -> <<"P", "R", "O", "D">>
                [] env = "uat" -> <<"U", "A", "T">>],
   [key |-> "baseUrl", value |-> <<>>],
   [key |-> "xAPIKey", value |-> <<>>],
   [key |-> "oneSignalKey", value |-> <<>>]}

\* The writes of r into the configuration file of an environment.
ConfigWrites(r, env) ==
  {i \in Positions(r, "fs") :
     events[r][i].op = "writeFileSync" /\ events[r][i].path = ConfigPath(env)}

\* C22: a run that has returned has written a configuration file only if
\* it is a real run, and a real run that has got to step 10 has written
\* exactly one file for each of dev, prod and uat; what it wrote for an
\* environment is, before the final line end, a JSON text with four
\* members, whose keys are secretKey, baseUrl, xAPIKey and oneSignalKey,
\* where secretKey is the name of the environment in upper case and the
\* other three are empty strings.
C22_ConfigFiles ==
  \A r \in Runs :
    pc[r] = "done" =>
      LET ev == events[r]
          atStep10 == \E i \in 1..Len(log[r]) :
                        log[r][i] = stepMsg(10, "Creating config files")
      IN \A e \in 1..Len(ConfigEnvs) :
           LET env == ConfigEnvs[e]
               writes == ConfigWrites(r, env)
           IN /\ Cardinality(writes) = IF atStep10 /\ ~dryRun[r] THEN 1 ELSE 0
              /\ \A i \in writes :
                   LET text == ev[i].content
                       json == SubSeq(text, 1, Len(text) - 1)
                   IN /\ text[Len(text)] = "\n"
                      /\ Cardinality(Colons(json)) = 4
                      /\ Members(json) = ExpectedConfig(env)

\* A real run has written the three files, the one of uat with UAT as its
\* secret key.
C22_Witness ==
  \E r \in Runs :
    /\ pc[r] = "done" /\ ~dryRun[r]
    /\ \A e \in 1..Len(ConfigEnvs) : Cardinality(ConfigWrites(r, ConfigEnvs[e])) = 1
    /\ \E i \in ConfigWrites(r, "uat") :
         [key |-> "secretKey", value |-> <<"U", "A", "T">>]
           \in Members(SubSeq(events[r][i].content, 1, Len(events[r][i].content) - 1))

\* ----------------------------------------------------------------- C27
\* Step 11 on its own: the handler gets to step 11 of a dry or of a real
\* run, with the build script absent or present with some content.
PatchInit ==
  /\ phase = "patch"
  /\ NoHandler
  /\ \E dry \in BOOLEAN, exists \in BOOLEAN, script \in GradleScripts :
       arg = [dry |-> dry, exists |-> exists,
              script |-> IF exists THEN script ELSE NoContent]
  /\ ret = <<>>

\* The handler runs from the start of step 11 to its return.
Patch ==
  /\ phase = "patch"
  /\ ret = <<>>
  /\ ret' = <<Step11([Ctx(1) EXCEPT
                        !.dry = arg.dry,
                        !.gradle = arg.script,
                        !.files = {ProjectDir}
                                    \cup (IF arg.exists THEN {GradlePath} ELSE {})])>>
  /\ UNCHANGED <<phase, useFvm, files, invocations, pc, dryRun, hasGit,
                 detected, log, call, events, prior, succeeded, result, arg>>

PatchSpec == PatchInit /\ [][Patch]_vars

\* How often an item occurs in a text.
Count(item, t) == Cardinality({i \in 1..Len(t) : t[i] = item})

\* The positions in a history of the writes of a file.
WritesOf(ev, path) ==
  {i \in 1..Len(ev) : ev[i].op = "writeFileSync" /\ ev[i].path = path}

\* C27: if the build script exists, step 11 of a real run ends the handler
\* with a success result, whatever the script holds.  It writes the script
\* exactly once, and the rule-suppression file exactly once and after the
\* script.  What it writes as the script ends with the dependency block.
\* The desugaring option is in it once if the script has a block of compile
\* options and is not in it otherwise; the debug build type is in it once
\* if the script has a block of build types that is closed on a line of its
\* own and is not in it otherwise; and a script with neither is written
\* back as it was, up to the white space at its end, before the dependency
\* block.
C27_PatchAlwaysSucceeds ==
  (ret # <<>> /\ ~arg.dry /\ arg.exists) =>
    LET c == ret[1]
        script == arg.script
        gw == WritesOf(c.events, GradlePath)
        pw == WritesOf(c.events, ProguardPath)
        written == c.events[Least(gw)].content
        n == Len(written) - Len(DependenciesBlock)
        hasCompile == Count("compileOptions", script) > 0
        hasBuild == Count("release", script) > 0
    IN /\ c.pc = "done" /\ ~c.result.isError
       /\ Cardinality(gw) = 1 /\ Cardinality(pw) = 1
       /\ Least(gw) < Least(pw)
       /\ c.events[Least(pw)].content = proguardContent
       /\ n >= 0 /\ SubSeq(written, n + 1, Len(written)) = DependenciesBlock
       /\ Count(DesugaringOption, written) = IF hasCompile THEN 1 ELSE 0
       /\ Count("getByName(\"debug\")", written) = IF hasBuild THEN 1 ELSE 0
       /\ hasBuild => Count("release", written) = 0
       /\ (~hasCompile /\ ~hasBuild) =>
            SubSeq(written, 1, n) = trimEnd(script)

\* Step 11 has patched a script that has neither a block of compile options
\* nor a block of build types and that ends in empty lines.
C27_Witness ==
  /\ ret # <<>> /\ ~arg.dry /\ arg.exists
  /\ arg.script = Script(<<>>, <<>>, <<>>, <<"\n", "\n">>)
  /\ ~ret[1].result.isError
  /\ \E i \in WritesOf(ret[1].events, GradlePath) :
       ret[1].events[i].content
         = <<"android", " ", "{", "\n", "}">> \o DependenciesBlock

\* ----------------------------------------------------------------- C24
\* C24: a dry run awaits nothing but its two lookups, and when it returns
\* it returns a success result, whatever the lookups found and whatever is
\* on disk: its log ends with the dry-run-complete line.
C24_DryRunSucceeds ==
  \A r \in Runs :
    dryRun[r] =>
      /\ pc[r] \in {"detect_fvm", "which_git", "done"}
      /\ pc[r] = "done" =>
           /\ ~result[r].isError
           /\ result[r].err = NoError
           /\ Last(result[r].text) = Line("Dry run complete! No changes were made.")

\* A dry run has returned success although its lookups found neither the
\* runner nor git, it looked for nothing else, and the project directory
\* exists.
C24_Witness ==
  \E r \in Runs :
    /\ dryRun[r] /\ pc[r] = "done" /\ ~result[r].isError
    /\ ~detected[r] /\ ~useFvm /\ ~hasGit[r]
    /\ \A i \in Positions(r, "spawn") : events[r][i].proc # Which(0, "flutter")
    /\ ProjectDir \in files

\* ----------------------------------------------------------------- C25
\* The run reads the runner flag as set when it comes back from its lookup
\* of git; the Runner line of its header says what it read.
Wrapped(r) == log[r][5] = Header("Runner", "fvm")

\* Real run r ends here with a pre-flight error.
AbortsWith(r, err) ==
  /\ pc'[r] = "done"
  /\ result'[r].isError
  /\ result'[r].err = err

\* The git test and the directory test, in this order, and step 1 after them.
GitThenDirectory(r) ==
  IF ~hasGit'[r] THEN AbortsWith(r, GitMissing)
  ELSE IF ProjectDir \in files THEN AbortsWith(r, DirectoryExists)
  ELSE pc'[r] = "step1"

\* C25: the pre-flight of a real run tests for a toolchain, then for git,
\* then for the project directory, and ends the run with the error of the
\* first test that fails.  If the run reads the runner as found, flutter is
\* not looked for and the toolchain test passes; otherwise flutter is looked
\* for before anything is said about git or the directory, and a run without
\* flutter ends with the toolchain error whether or not git is there and
\* whether or not the directory exists.
C25_PreflightOrder ==
  [][\A r \in Runs :
       /\ (pc[r] = "which_git" /\ pc'[r] # "which_git" /\ ~dryRun[r]) =>
            IF Wrapped(r)'
            THEN GitThenDirectory(r)
            ELSE /\ pc'[r] = "which_flutter"
                 /\ Last(events[r]').kind = "spawn"
                 /\ Last(events[r]').proc = Which(0, "flutter")
       /\ (pc[r] = "which_flutter" /\ pc'[r] # "which_flutter") =>
            IF ~events[r]'[Len(events[r]) + 1].ok
            THEN AbortsWith(r, ToolchainMissing)
            ELSE GitThenDirectory(r)]_vars

\* A real run without flutter, without git and with the project directory
\* on disk has returned the toolchain error.
C25_Witness ==
  \E r \in Runs :
    /\ pc[r] = "done" /\ ~dryRun[r]
    /\ result[r].err = ToolchainMissing
    /\ ~hasGit[r]
    /\ ProjectDir \in files

\* ----------------------------------------------------------------- C26
\* The command line of step 2 of r: the one a dry run logged, the one a
\* real run passed to the executor (<<>>: r has not got to step 2).
CloneCommandLine(r) ==
  IF pc[r] = "idle" THEN <<>>
  ELSE IF dryRun[r] THEN DryCommandLine(log[r], 2)
  ELSE RealCommandLine(r, 2)

HasFvmOption(line) == \E i \in 2..Len(line) : line[i] = "--fvm"

\* C26: the command of step 2, in a dry run and in a real run, is run by
\* fvm or by dart.  Run by fvm (WRAPPED) it is `fvm dart pub global run ...`
\* with the argument --fvm, at the end; run by dart (DIRECT) it has no
\* --fvm among its arguments.  A dry run logs the line in the mode of its
\* header.
C26_FvmOptionIffWrapped ==
  \A r \in Runs :
    LET line == CloneCommandLine(r)
    IN line # <<>> =>
         /\ line[1] \in {"fvm", "dart"}
         /\ (line[1] = "fvm") <=> HasFvmOption(line)
         /\ line[1] = "fvm" =>
              /\ line[2] = "dart"
              /\ line[Len(line)] = "--fvm"
              /\ \A i \in 2..(Len(line) - 1) : line[i] # "--fvm"
         /\ line[1] = "dart" => line[2] = "pub"
         /\ dryRun[r] => ((line[1] = "fvm") <=> ReportedWrapped(r))

\* A real run is cloning the template through fvm, with --fvm, while a dry
\* run has logged the command for dart, without it.
C26_Witness ==
  \E r, q \in Runs :
    /\ ~dryRun[r] /\ pc[r] = "step2"
    /\ CloneCommandLine(r)[1] = "fvm" /\ HasFvmOption(CloneCommandLine(r))
    /\ dryRun[q] /\ pc[q] = "done"
    /\ CloneCommandLine(q)[1] = "dart" /\ ~HasFvmOption(CloneCommandLine(q))

=============================================================================
